---- MODULE Spec2Model ----
(***************************************************************************)
(* A model of the preimage-driven state access layer of kona: the Merkle   *)
(* Patricia Trie engine (crates/mpt/src/node.rs), the in-memory oracle's   *)
(* verify pass, the hint / preimage wire protocol, the oracle-backed       *)
(* providers and the program driver.                                       *)
(*                                                                         *)
(* keccak256 is modelled as a perfect (collision-free) hash: a digest is   *)
(* represented by the byte string it commits to.  An RLP encoding is a     *)
(* sequence of tokens; a token is one byte, or one 32-byte digest.         *)
(***************************************************************************)
EXTENDS Integers, Sequences, FiniteSets, TLC

(***************************************************************************)
(* Bounds of the model.                                                    *)
(***************************************************************************)
\* Length, in nibbles, of every path handed to insert / delete / open.
PathLen == 3
\* Largest number of keys bound in the trie at once.
MaxKeys == 3
\* Length, in nibbles, of the paths of a trie opened from a commitment.
SparsePathLen == 2
\* Largest number of operations made on a trie opened from a commitment.
MaxOps == 2
\* The accounts of a state a TrieCacheDB is built on, and the calls on one DB.
MaxDBKeys == 2
MaxDBCalls == 2
\* The dials of one address after which the gossip driver is left alone.
MaxDials == 3
\* The calls on one CacheDB.
MaxCacheCalls == 3
\* The calls on one derivation pipeline.
MaxPipelineCalls == 4
\* The frames of FileDescriptor::clone the stack holds.
MaxFrames == 12
\* Largest number of entries of the table of an in-memory oracle.
MaxEntries == 2
\* Largest block number claimed or produced.
MaxBlock == 1
\* Largest number of fetches a program makes.
MaxFetches == 3

(***************************************************************************)
(* Program constants.                                                      *)
(***************************************************************************)
BRANCH_LIST_LENGTH == 17
LEAF_OR_EXTENSION_LIST_LENGTH == 2
BRANCH_NODE_NIBBLES == 1
PREFIX_EXTENSION_EVEN == 0
PREFIX_EXTENSION_ODD == 1
PREFIX_LEAF_EVEN == 2
PREFIX_LEAF_ODD == 3
EMPTY_STRING_CODE == 128
\* B256::ZERO.len(): the byte length of a digest.
B256_LEN == 32
\* hint_data.split_at(20): the byte length of a precompile address.
ADDR_LEN == 20
\* The byte length of the u128 the address is read into.
U128_LEN == 16
\* The least input length of ECRECOVER.
ECRECOVER_INPUT_LEN == 128

(***************************************************************************)
(* Encodings: sequences of tokens.                                         *)
(***************************************************************************)
Byte(b) == [k |-> "b", v |-> b, h |-> <<>>]

\* The 32 bytes of digest c inside an encoding, kept as one token.
HashTok(c) == [k |-> "h", v |-> 0, h |-> c.keccak]

Bytes(bs) == [i \in 1..Len(bs) |-> Byte(bs[i])]

\* Byte length of a token sequence.
RECURSIVE EncLen(_)
EncLen(s) ==
    IF s = <<>> THEN 0
    ELSE (IF Head(s).k = "h" THEN B256_LEN ELSE 1) + EncLen(Tail(s))

keccak256(buf) == [keccak |-> buf]

EMPTY_ROOT_HASH == keccak256(<<Byte(EMPTY_STRING_CODE)>>)

\* Big-endian bytes of n, without leading zeros.
RECURSIVE BEBytes(_)
BEBytes(n) == IF n = 0 THEN <<>> ELSE BEBytes(n \div 256) \o <<n % 256>>

\* alloy_rlp::length_of_length
length_of_length(n) == IF n < 56 THEN 1 ELSE 1 + Len(BEBytes(n))

\* alloy_rlp::Header { list, payload_length }.encode
HeaderEncode(list, n) ==
    LET base == IF list THEN 192 ELSE 128 IN
    IF n < 56 THEN <<Byte(base + n)>>
    ELSE <<Byte(base + 55 + Len(BEBytes(n)))>> \o Bytes(BEBytes(n))

\* alloy_rlp::Header { list, payload_length }.length
HeaderLength(n) == length_of_length(n)

\* <[u8] as Encodable>::encode: an RLP string.
BytesEncode(bs) ==
    IF Len(bs) = 1 /\ bs[1] < EMPTY_STRING_CODE THEN Bytes(bs)
    ELSE HeaderEncode(FALSE, Len(bs)) \o Bytes(bs)

\* <[u8] as Encodable>::length
BytesLength(bs) ==
    IF Len(bs) = 1 /\ bs[1] < EMPTY_STRING_CODE THEN 1
    ELSE Len(bs) + length_of_length(Len(bs))

\* <B256 as Encodable>::encode: a 32-byte string.
B256Encode(c) == <<Byte(EMPTY_STRING_CODE + B256_LEN), HashTok(c)>>

\* <B256 as Encodable>::length
B256Length == 1 + B256_LEN

\* Nibbles::encode_path_leaf: the hex-prefix encoding of a nibble path.
RECURSIVE PackNibbles(_)
PackNibbles(ns) ==
    IF Len(ns) < 2 THEN <<>>
    ELSE <<ns[1] * 16 + ns[2]>> \o PackNibbles(SubSeq(ns, 3, Len(ns)))

encode_path_leaf(prefix, is_leaf) ==
    IF Len(prefix) % 2 = 1
    THEN <<(IF is_leaf THEN PREFIX_LEAF_ODD ELSE PREFIX_EXTENSION_ODD) * 16 + prefix[1]>>
         \o PackNibbles(Tail(prefix))
    ELSE <<(IF is_leaf THEN PREFIX_LEAF_EVEN ELSE PREFIX_EXTENSION_EVEN) * 16>>
         \o PackNibbles(prefix)

\* Nibbles::common_prefix_length
RECURSIVE common_prefix_length(_, _)
common_prefix_length(a, b) ==
    IF a = <<>> \/ b = <<>> \/ Head(a) # Head(b) THEN 0
    ELSE 1 + common_prefix_length(Tail(a), Tail(b))

\* Nibbles::slice(from..), with from counted from 0.
SliceFrom(p, from) == SubSeq(p, from + 1, Len(p))

\* Nibbles::slice(..to)
SliceTo(p, to) == SubSeq(p, 1, to)

(***************************************************************************)
(* TrieNodeData.                                                           *)
(***************************************************************************)
Empty == [type |-> "Empty"]
Blinded(c) == [type |-> "Blinded", commitment |-> c]
Leaf(p, v) == [type |-> "Leaf", prefix |-> p, value |-> v]
Extension(p, n) == [type |-> "Extension", prefix |-> p, node |-> n]
Branch(st) == [type |-> "Branch", stack |-> st]

\* vec![TrieNodeData::Empty.into(); BRANCH_LIST_LENGTH]
EmptyStack == [i \in 1..BRANCH_LIST_LENGTH |-> Empty]

\* TrieNode::blinded_commitment
blinded_commitment(n) ==
    CASE n.type = "Blinded" -> [some |-> TRUE, v |-> n.commitment]
      [] n.type = "Empty" -> [some |-> TRUE, v |-> EMPTY_ROOT_HASH]
      [] OTHER -> [some |-> FALSE, v |-> EMPTY_ROOT_HASH]

RECURSIVE payload_length(_), length(_), blinded_length(_), SumBlindedLength(_)

\* Length of the hex-prefix path as an RLP string.
EncodedKeyLen(prefix) ==
    LET l == Len(prefix) \div 2 + 1 IN
    IF l # 1 THEN l + length_of_length(l) ELSE l

SumBlindedLength(st) ==
    IF st = <<>> THEN 0 ELSE blinded_length(Head(st)) + SumBlindedLength(Tail(st))

payload_length(n) ==
    CASE n.type = "Empty" -> 0
      [] n.type = "Blinded" -> B256_LEN
      [] n.type = "Leaf" -> EncodedKeyLen(n.prefix) + BytesLength(n.value)
      [] n.type = "Extension" -> EncodedKeyLen(n.prefix) + blinded_length(n.node)
      [] n.type = "Branch" -> SumBlindedLength(n.stack)

length(n) ==
    CASE n.type = "Empty" -> 1
      [] n.type = "Blinded" -> B256Length
      [] OTHER -> HeaderLength(payload_length(n)) + payload_length(n)

blinded_length(n) ==
    IF length(n) >= B256_LEN /\ n.type # "Blinded" THEN B256Length ELSE length(n)

RECURSIVE encode(_), EncodeStack(_)

\* A faulty blind: a node of exactly 32 bytes is left open.
BlindWithLongerOnly(n, enc) ==
    IF length(n) > B256_LEN /\ n.type # "Blinded" THEN Blinded(keccak256(enc)) ELSE n

\* The node as blind() leaves it: Blinded when its encoding has 32 bytes or more.
BlindWith(n, enc) ==
    IF length(n) >= B256_LEN /\ n.type # "Blinded" THEN Blinded(keccak256(enc)) ELSE n

\* <TrieNode as Encodable>::encode
encode(n) ==
    CASE n.type = "Empty" -> <<Byte(EMPTY_STRING_CODE)>>
      [] n.type = "Blinded" -> B256Encode(n.commitment)
      [] n.type = "Leaf" ->
            HeaderEncode(TRUE, payload_length(n))
            \o BytesEncode(encode_path_leaf(n.prefix, TRUE))
            \o BytesEncode(n.value)
      [] n.type = "Extension" ->
            HeaderEncode(TRUE, payload_length(n))
            \o BytesEncode(encode_path_leaf(n.prefix, FALSE))
            \o encode(BlindWith(n.node, encode(n.node)))
      [] n.type = "Branch" ->
            HeaderEncode(TRUE, payload_length(n)) \o EncodeStack(n.stack)

EncodeStack(st) ==
    IF st = <<>> THEN <<>>
    ELSE encode(BlindWith(Head(st), encode(Head(st)))) \o EncodeStack(Tail(st))

\* TrieNode::blind
blind(n) == BlindWith(n, encode(n))

(***************************************************************************)
(* Results of the trie operations.  node is the receiver after the call    *)
(* (the operations mutate in place), val the Option returned by open, log  *)
(* the calls made to the fetcher and to the hinter, in order.              *)
(***************************************************************************)
None == [some |-> FALSE, v |-> <<>>]
Some(x) == [some |-> TRUE, v |-> x]

OkRes(n, val, log) == [ok |-> TRUE, err |-> "", node |-> n, val |-> val, log |-> log]
ErrRes(e, n, log) == [ok |-> FALSE, err |-> e, node |-> n, val |-> None, log |-> log]

\* An index or a slice out of range: the program aborts.
Panic(n, log) == ErrRes("panic", n, log)

FetchEv(c, ok, n) == [ev |-> "fetch", c |-> c, ok |-> ok, node |-> n]
HintEv(c, ok) == [ev |-> "hint", c |-> c, ok |-> ok, node |-> Empty]

\* TrieHinter::hint_trie_node, for a hinter that succeeds or fails.
hint_trie_node(hinter, c) == hinter.ok

\* stack[i] = n, with i counted from 0.
SetStack(st, i, n) == [st EXCEPT ![i + 1] = n]

(***************************************************************************)
(* Decoding.                                                               *)
(***************************************************************************)
TokLen(t) == IF t.k = "h" THEN B256_LEN ELSE 1

\* The first n bytes of s and what follows them.
RECURSIVE TakeBytes(_, _)
TakeBytes(s, n) ==
    IF n = 0 THEN [ok |-> TRUE, head |-> <<>>, rest |-> s]
    ELSE IF Len(s) >= n /\ \A i \in 1..n : s[i].k = "b"
    THEN [ok |-> TRUE, head |-> SubSeq(s, 1, n), rest |-> SubSeq(s, n + 1, Len(s))]
    ELSE IF s = <<>> \/ TokLen(Head(s)) > n THEN [ok |-> FALSE, head |-> <<>>, rest |-> s]
    ELSE LET r == TakeBytes(Tail(s), n - TokLen(Head(s))) IN
         [ok |-> r.ok, head |-> <<Head(s)>> \o r.head, rest |-> r.rest]

\* Big-endian value of a sequence of byte tokens.
RECURSIVE BEValue(_)
BEValue(s) == IF s = <<>> THEN 0 ELSE BEValue(SubSeq(s, 1, Len(s) - 1)) * 256 + s[Len(s)].v

NoHeader == [ok |-> FALSE, list |-> FALSE, payload_length |-> 0, hlen |-> 0]

\* A header whose payload is in the buffer; a string of one byte below 0x80 must
\* not carry a header.  hlen is the number of bytes the header itself takes.
CheckedHeader(s, list, n, hl) ==
    IF ~TakeBytes(s, hl + n).ok THEN NoHeader
    ELSE IF ~list /\ hl = 1 /\ n = 1 /\ s[2].k = "b" /\ s[2].v < 128 THEN NoHeader
    ELSE [ok |-> TRUE, list |-> list, payload_length |-> n, hlen |-> hl]

\* A header that gives the payload length in the bytes lenb that follow it.
LongHeader(s, list, lenb) ==
    IF ~lenb.ok \/ (\E i \in 1..Len(lenb.head) : lenb.head[i].k # "b") THEN NoHeader
    ELSE IF lenb.head[1].v = 0 \/ BEValue(lenb.head) < 56 THEN NoHeader
    ELSE CheckedHeader(s, list, BEValue(lenb.head), 1 + Len(lenb.head))

\* alloy_rlp::Header::decode: the header at the front of s.
HeaderDecode(s) ==
    IF s = <<>> \/ Head(s).k # "b" THEN NoHeader
    ELSE CASE Head(s).v < 128 ->
                [ok |-> TRUE, list |-> FALSE, payload_length |-> 1, hlen |-> 0]
           [] Head(s).v >= 128 /\ Head(s).v < 184 ->
                CheckedHeader(s, FALSE, Head(s).v - EMPTY_STRING_CODE, 1)
           [] Head(s).v >= 184 /\ Head(s).v < 192 ->
                LongHeader(s, FALSE, TakeBytes(Tail(s), Head(s).v - 183))
           [] Head(s).v >= 192 /\ Head(s).v < 248 ->
                CheckedHeader(s, TRUE, Head(s).v - 192, 1)
           [] OTHER -> LongHeader(s, TRUE, TakeBytes(Tail(s), Head(s).v - 247))

RECURSIVE SplitItems(_)

\* The item that header h opens at the front of s, then the items after it.
SplitAt(s, h) ==
    IF ~h.ok THEN [ok |-> FALSE, items |-> <<>>]
    ELSE LET t == TakeBytes(s, h.hlen + h.payload_length)
             r == SplitItems(t.rest)
         IN  [ok |-> r.ok, items |-> <<t.head>> \o r.items]

\* The items of an RLP list payload, each with its header: [ok, items].
SplitItems(s) ==
    IF s = <<>> THEN [ok |-> TRUE, items |-> <<>>] ELSE SplitAt(s, HeaderDecode(s))

\* The payload of the RLP string that header h opens, as byte values.
BytesOf(item, h) ==
    IF ~h.ok \/ h.list \/ (\E i \in (h.hlen + 1)..Len(item) : item[i].k # "b")
    THEN [ok |-> FALSE, v |-> <<>>]
    ELSE [ok |-> TRUE, v |-> [i \in 1..(Len(item) - h.hlen) |-> item[h.hlen + i].v]]

\* Bytes::decode of one item.
BytesDecode(item) == BytesOf(item, HeaderDecode(item))

RECURSIVE UnpackNibbles(_)
UnpackNibbles(bs) ==
    IF bs = <<>> THEN <<>>
    ELSE <<Head(bs) \div 16, Head(bs) % 16>> \o UnpackNibbles(Tail(bs))

\* A faulty unpacking: the nibble of an odd path that sits beside the flag is lost.
UnpackDroppingFirst(first, rest) == UnpackNibbles(rest)

\* unpack_path_to_nibbles(first, rest)
unpack_path_to_nibbles(first, rest) ==
    (IF first.some THEN <<first.v>> ELSE <<>>) \o UnpackNibbles(rest)

DecodeErr == [ok |-> FALSE, node |-> Empty]

RECURSIVE decode(_), DecodeItems(_)

\* Vec::<TrieNode>::decode: every item of the list decoded as a node.
DecodeItems(items) ==
    IF items = <<>> THEN [ok |-> TRUE, nodes |-> <<>>]
    ELSE LET d == decode(Head(items))
             r == DecodeItems(Tail(items))
         IN  [ok |-> d.ok /\ r.ok, nodes |-> <<d.node>> \o r.nodes]

\* The Extension with the decoded child d, the Leaf with the decoded value v.
ExtensionOf(nibbles, d) ==
    IF d.ok THEN [ok |-> TRUE, node |-> Extension(nibbles, d.node)] ELSE DecodeErr

LeafOf(nibbles, v) ==
    IF v.ok THEN [ok |-> TRUE, node |-> Leaf(nibbles, v.v)] ELSE DecodeErr

\* The match on the prefix nibble of the decoded path.
LeafOrExtension(first_nibble, path, item) ==
    CASE first_nibble = PREFIX_EXTENSION_EVEN ->
            ExtensionOf(unpack_path_to_nibbles(None, Tail(path)), decode(item))
      [] first_nibble = PREFIX_EXTENSION_ODD ->
            ExtensionOf(unpack_path_to_nibbles(Some(path[1] % 16), Tail(path)), decode(item))
      [] first_nibble = PREFIX_LEAF_EVEN ->
            LeafOf(unpack_path_to_nibbles(None, Tail(path)), BytesDecode(item))
      [] first_nibble = PREFIX_LEAF_ODD ->
            LeafOf(unpack_path_to_nibbles(Some(path[1] % 16), Tail(path)), BytesDecode(item))
      [] OTHER -> DecodeErr

\* The node that the decoded path and the second item of the list make.
DecodePathAndItem(path, item) ==
    IF ~path.ok \/ path.v = <<>> THEN DecodeErr
    ELSE LeafOrExtension(path.v[1] \div 16, path.v, item)

\* TrieNode::try_decode_leaf_or_extension_payload, on the two items of the list.
try_decode_leaf_or_extension_payload(items) ==
    DecodePathAndItem(BytesDecode(items[1]), items[2])

BranchOf(d) == IF d.ok THEN [ok |-> TRUE, node |-> Branch(d.nodes)] ELSE DecodeErr

\* The match on the number of items of the list.
DecodeList(l) ==
    IF ~l.ok THEN DecodeErr
    ELSE CASE Len(l.items) = BRANCH_LIST_LENGTH -> BranchOf(DecodeItems(l.items))
           [] Len(l.items) = LEAF_OR_EXTENSION_LIST_LENGTH ->
                try_decode_leaf_or_extension_payload(l.items)
           [] OTHER -> DecodeErr

\* The node that buf, whose header is header, decodes to.
DecodeWith(buf, header) ==
    IF ~header.ok THEN DecodeErr
    ELSE IF header.list
    THEN DecodeList(SplitItems(TakeBytes(SubSeq(buf, header.hlen + 1, Len(buf)),
                                         header.payload_length).head))
    ELSE CASE header.payload_length = 0 -> [ok |-> TRUE, node |-> Empty]
           [] header.payload_length = B256_LEN /\ buf[2].k = "h" ->
                [ok |-> TRUE, node |-> Blinded(keccak256(buf[2].h))]
           [] OTHER -> DecodeErr

\* <TrieNode as Decodable>::decode of one RLP item.
decode(buf) == DecodeWith(buf, HeaderDecode(buf))

(***************************************************************************)
(* The fetcher (TrieProvider) and the hinter (TrieHinter) are parameters   *)
(* of the operations.  A fetcher either serves the node whose encoding the *)
(* commitment commits to ("honest"), fails ("fail"), or serves some other  *)
(* node ("lying").                                                         *)
(***************************************************************************)
HonestFetcher == [mode |-> "honest", node |-> Empty]
FailingFetcher == [mode |-> "fail", node |-> Empty]
LyingFetcher(n) == [mode |-> "lying", node |-> n]

\* TrieProvider::trie_node_by_hash
trie_node_by_hash(fetcher, c) ==
    CASE fetcher.mode = "honest" -> decode(c.keccak)
      [] fetcher.mode = "lying" -> [ok |-> TRUE, node |-> fetcher.node]
      [] OTHER -> DecodeErr

\* *self = fetcher.trie_node_by_hash(commitment).map_err(Provider)?, r being what
\* the fetcher returned.
Fetched(n, r) ==
    IF r.ok THEN OkRes(r.node, None, <<FetchEv(n.commitment, TRUE, r.node)>>)
    ELSE ErrRes("Provider", n, <<FetchEv(n.commitment, FALSE, Empty)>>)

\* TrieNode::unblind
unblind(n, fetcher) ==
    IF n.type = "Blinded"
    THEN IF n.commitment = EMPTY_ROOT_HASH
         THEN OkRes(Empty, None, <<>>)
         ELSE Fetched(n, trie_node_by_hash(fetcher, n.commitment))
    ELSE OkRes(n, None, <<>>)

\* The result r of a call, the calls of log made before it.
WithLog(log, r) == [r EXCEPT !.log = log \o r.log]

RECURSIVE open(_, _, _)

\* A faulty open: the opened child takes the place of the extension above it.
OpenChildDroppingExtension(n, u, path, fetcher) ==
    IF ~u.ok THEN ErrRes(u.err, n, u.log)
    ELSE WithLog(u.log, open(u.node, SliceFrom(path, Len(n.prefix)), fetcher))

\* The Extension arm of open once the child was unblinded with result u.
OpenChild(n, u, path, fetcher) ==
    IF ~u.ok THEN ErrRes(u.err, n, u.log)
    ELSE LET r == open(u.node, SliceFrom(path, Len(n.prefix)), fetcher) IN
         [r EXCEPT !.node = Extension(n.prefix, r.node), !.log = u.log \o r.log]

\* The Blinded arm of open once the node was unblinded with result u.
OpenUnblinded(u, path, fetcher) ==
    IF ~u.ok THEN u ELSE WithLog(u.log, open(u.node, path, fetcher))

\* TrieNode::open
open(n, path, fetcher) ==
    CASE n.type = "Branch" ->
            IF path = <<>> THEN Panic(n, <<>>)
            ELSE IF path[1] + 1 > Len(n.stack) THEN OkRes(n, None, <<>>)
            ELSE LET r == open(n.stack[path[1] + 1], SliceFrom(path, BRANCH_NODE_NIBBLES), fetcher)
                 IN  [r EXCEPT !.node = Branch(SetStack(n.stack, path[1], r.node))]
      [] n.type = "Leaf" ->
            OkRes(n, IF path = n.prefix THEN Some(n.value) ELSE None, <<>>)
      [] n.type = "Extension" ->
            IF Len(path) < Len(n.prefix) THEN Panic(n, <<>>)
            ELSE IF SliceTo(path, Len(n.prefix)) = n.prefix
            THEN OpenChild(n, unblind(n.node, fetcher), path, fetcher)
            ELSE OkRes(n, None, <<>>)
      [] n.type = "Blinded" -> OpenUnblinded(unblind(n, fetcher), path, fetcher)
      [] OTHER -> OkRes(n, None, <<>>)

\* A faulty split: the new leaf keeps the nibble that the branch already consumed.
SplitIntoKeepingNibble(path, value, shared, extension_nibble, old) ==
    LET stack == SetStack(SetStack(EmptyStack, extension_nibble, old), path[shared + 1],
                          Leaf(SliceFrom(path, shared), value))
    IN  IF shared = 0 THEN Branch(stack)
        ELSE Extension(SliceTo(path, shared), Branch(stack))

\* The branch (under an extension when nibbles are shared) that insert puts in the
\* place of a leaf or of an extension: old is what stays of the former node.
SplitInto(path, value, shared, extension_nibble, old) ==
    LET stack == SetStack(SetStack(EmptyStack, extension_nibble, old), path[shared + 1],
                          Leaf(SliceFrom(path, shared + BRANCH_NODE_NIBBLES), value))
    IN  IF shared = 0 THEN Branch(stack)
        ELSE Extension(SliceTo(path, shared), Branch(stack))

RECURSIVE insert(_, _, _, _)

\* The Blinded arm of insert once the node was unblinded with result u.
InsertUnblinded(u, path, value, fetcher) ==
    IF ~u.ok THEN u ELSE WithLog(u.log, insert(u.node, path, value, fetcher))

\* A faulty insert: what stays of a split extension is always an extension.
InsertWrappingChild(n, path, value, fetcher) ==
    CASE n.type = "Empty" -> OkRes(Leaf(path, value), None, <<>>)
      [] n.type = "Leaf" ->
            LET shared == common_prefix_length(path, n.prefix) IN
            IF path = n.prefix THEN OkRes(Leaf(n.prefix, value), None, <<>>)
            ELSE IF shared >= Len(n.prefix) \/ shared >= Len(path) THEN Panic(n, <<>>)
            ELSE OkRes(SplitInto(path, value, shared, n.prefix[shared + 1],
                                 Leaf(SliceFrom(n.prefix, shared + BRANCH_NODE_NIBBLES), n.value)),
                       None, <<>>)
      [] n.type = "Extension" ->
            LET shared == common_prefix_length(path, n.prefix) IN
            IF shared = Len(n.prefix)
            THEN LET r == insert(n.node, SliceFrom(path, shared), value, fetcher) IN
                 [r EXCEPT !.node = Extension(n.prefix, r.node)]
            ELSE IF shared >= Len(path) THEN Panic(n, <<>>)
            ELSE LET new_prefix == SliceFrom(n.prefix, shared + BRANCH_NODE_NIBBLES) IN
                 OkRes(SplitInto(path, value, shared, n.prefix[shared + 1],
                                 Extension(new_prefix, n.node)),
                       None, <<>>)
      [] n.type = "Branch" ->
            IF path = <<>> \/ path[1] + 1 > Len(n.stack) THEN Panic(n, <<>>)
            ELSE LET r == insert(n.stack[path[1] + 1], SliceFrom(path, BRANCH_NODE_NIBBLES),
                                 value, fetcher)
                 IN  [r EXCEPT !.node = Branch(SetStack(n.stack, path[1], r.node))]
      [] OTHER -> InsertUnblinded(unblind(n, fetcher), path, value, fetcher)

\* TrieNode::insert
insert(n, path, value, fetcher) ==
    CASE n.type = "Empty" -> OkRes(Leaf(path, value), None, <<>>)
      [] n.type = "Leaf" ->
            LET shared == common_prefix_length(path, n.prefix) IN
            IF path = n.prefix THEN OkRes(Leaf(n.prefix, value), None, <<>>)
            ELSE IF shared >= Len(n.prefix) \/ shared >= Len(path) THEN Panic(n, <<>>)
            ELSE OkRes(SplitInto(path, value, shared, n.prefix[shared + 1],
                                 Leaf(SliceFrom(n.prefix, shared + BRANCH_NODE_NIBBLES), n.value)),
                       None, <<>>)
      [] n.type = "Extension" ->
            LET shared == common_prefix_length(path, n.prefix) IN
            IF shared = Len(n.prefix)
            THEN LET r == insert(n.node, SliceFrom(path, shared), value, fetcher) IN
                 [r EXCEPT !.node = Extension(n.prefix, r.node)]
            ELSE IF shared >= Len(path) THEN Panic(n, <<>>)
            ELSE LET new_prefix == SliceFrom(n.prefix, shared + BRANCH_NODE_NIBBLES) IN
                 OkRes(SplitInto(path, value, shared, n.prefix[shared + 1],
                                 IF new_prefix = <<>> THEN n.node
                                 ELSE Extension(new_prefix, n.node)),
                       None, <<>>)
      [] n.type = "Branch" ->
            IF path = <<>> \/ path[1] + 1 > Len(n.stack) THEN Panic(n, <<>>)
            ELSE LET r == insert(n.stack[path[1] + 1], SliceFrom(path, BRANCH_NODE_NIBBLES),
                                 value, fetcher)
                 IN  [r EXCEPT !.node = Branch(SetStack(n.stack, path[1], r.node))]
      [] OTHER -> InsertUnblinded(unblind(n, fetcher), path, value, fetcher)

\* Indices (from 0) of the children of a branch that are not Empty.
NonEmptyChildren(stack) == {i \in 0..(Len(stack) - 1) : stack[i + 1].type # "Empty"}

\* A faulty collapse: the child's prefix is dropped instead of appended.
CollapseExtensionDroppingPrefix(n) ==
    CASE n.node.type = "Extension" -> Extension(n.prefix, n.node.node)
      [] n.node.type = "Leaf" -> Leaf(n.prefix, n.node.value)
      [] n.node.type = "Empty" -> Empty
      [] OTHER -> n

\* The Extension arm of collapse_if_possible.
CollapseExtension(n) ==
    CASE n.node.type = "Extension" -> Extension(n.prefix \o n.node.prefix, n.node.node)
      [] n.node.type = "Leaf" -> Leaf(n.prefix \o n.node.prefix, n.node.value)
      [] n.node.type = "Empty" -> Empty
      [] OTHER -> n

RECURSIVE collapse_if_possible(_, _, _)

\* A faulty collapse: the child is asked of the fetcher before the hint is sent.
CollapseUnblindedFetchingFirst(n, index, hl, u, fetcher, hinter) ==
    IF ~u.ok THEN ErrRes(u.err, n, u.log \o hl)
    ELSE WithLog(u.log \o hl,
                 collapse_if_possible(Branch(SetStack(n.stack, index, u.node)),
                                      fetcher, hinter))

\* The Blinded arm of collapse_if_possible once the hint was sent and the child at
\* index was unblinded with result u.
CollapseUnblinded(n, index, hl, u, fetcher, hinter) ==
    IF ~u.ok THEN ErrRes(u.err, n, hl \o u.log)
    ELSE WithLog(hl \o u.log,
                 collapse_if_possible(Branch(SetStack(n.stack, index, u.node)),
                                      fetcher, hinter))

\* A faulty collapse: a branch whose only child is a branch is left as it is.
CollapseLeavingBranchChild(n, fetcher, hinter) ==
    CASE n.type = "Extension" -> OkRes(CollapseExtension(n), None, <<>>)
      [] n.type = "Branch" ->
            IF Cardinality(NonEmptyChildren(n.stack)) = 1
            THEN LET index == CHOOSE i \in NonEmptyChildren(n.stack) : TRUE
                     child == n.stack[index + 1]
                 IN  CASE child.type = "Leaf" ->
                            OkRes(Leaf(<<index>> \o child.prefix, child.value), None, <<>>)
                       [] child.type = "Extension" ->
                            OkRes(Extension(<<index>> \o child.prefix, child.node), None, <<>>)
                       [] child.type = "Blinded" ->
                            IF ~hint_trie_node(hinter, child.commitment)
                            THEN ErrRes("Provider", n, <<HintEv(child.commitment, FALSE)>>)
                            ELSE CollapseUnblinded(n, index,
                                                   <<HintEv(child.commitment, TRUE)>>,
                                                   unblind(child, fetcher), fetcher, hinter)
                       [] OTHER -> OkRes(n, None, <<>>)
            ELSE OkRes(n, None, <<>>)
      [] OTHER -> OkRes(n, None, <<>>)

\* TrieNode::collapse_if_possible
collapse_if_possible(n, fetcher, hinter) ==
    CASE n.type = "Extension" -> OkRes(CollapseExtension(n), None, <<>>)
      [] n.type = "Branch" ->
            IF Cardinality(NonEmptyChildren(n.stack)) = 1
            THEN LET index == CHOOSE i \in NonEmptyChildren(n.stack) : TRUE
                     child == n.stack[index + 1]
                 IN  CASE child.type = "Leaf" ->
                            OkRes(Leaf(<<index>> \o child.prefix, child.value), None, <<>>)
                       [] child.type = "Extension" ->
                            OkRes(Extension(<<index>> \o child.prefix, child.node), None, <<>>)
                       [] child.type = "Branch" ->
                            OkRes(Extension(<<index>>, child), None, <<>>)
                       [] child.type = "Blinded" ->
                            IF ~hint_trie_node(hinter, child.commitment)
                            THEN ErrRes("Provider", n, <<HintEv(child.commitment, FALSE)>>)
                            ELSE CollapseUnblinded(n, index,
                                                   <<HintEv(child.commitment, TRUE)>>,
                                                   unblind(child, fetcher), fetcher, hinter)
                       [] OTHER -> OkRes(n, None, <<>>)
            ELSE OkRes(n, None, <<>>)
      [] OTHER -> OkRes(n, None, <<>>)

\* A faulty delete: the leaf is reported deleted and left in place.
DeleteLeafKeepingLeaf(n, path) ==
    IF path = n.prefix THEN OkRes(n, None, <<>>)
    ELSE ErrRes("KeyNotFound", n, <<>>)

\* The Leaf arm of delete.
DeleteLeaf(n, path) ==
    IF path = n.prefix THEN OkRes(Empty, None, <<>>)
    ELSE ErrRes("KeyNotFound", n, <<>>)

RECURSIVE delete(_, _, _, _)

\* A faulty delete: only a branch is simplified after the deletion.
ThenCollapseBranchOnly(d, after, fetcher, hinter) ==
    IF ~d.ok THEN [d EXCEPT !.node = after]
    ELSE IF after.type # "Branch" THEN [d EXCEPT !.node = after]
    ELSE WithLog(d.log, collapse_if_possible(after, fetcher, hinter))

\* The end of the Extension and Branch arms of delete: d is what the delete in the
\* child returned, after the node with the child as that delete left it.
ThenCollapse(d, after, fetcher, hinter) ==
    IF ~d.ok THEN [d EXCEPT !.node = after]
    ELSE WithLog(d.log, collapse_if_possible(after, fetcher, hinter))

\* The Blinded arm of delete once the node was unblinded with result u.
DeleteUnblinded(u, path, fetcher, hinter) ==
    IF ~u.ok THEN u ELSE WithLog(u.log, delete(u.node, path, fetcher, hinter))

\* TrieNode::delete
delete(n, path, fetcher, hinter) ==
    CASE n.type = "Empty" -> ErrRes("KeyNotFound", n, <<>>)
      [] n.type = "Leaf" -> DeleteLeaf(n, path)
      [] n.type = "Extension" ->
            LET shared_nibbles == common_prefix_length(path, n.prefix) IN
            IF shared_nibbles < Len(n.prefix) THEN ErrRes("KeyNotFound", n, <<>>)
            ELSE IF shared_nibbles = Len(path) THEN OkRes(Empty, None, <<>>)
            ELSE LET d == delete(n.node, SliceFrom(path, Len(n.prefix)), fetcher, hinter)
                 IN  ThenCollapse(d, Extension(n.prefix, d.node), fetcher, hinter)
      [] n.type = "Branch" ->
            IF path = <<>> \/ path[1] + 1 > Len(n.stack) THEN Panic(n, <<>>)
            ELSE LET d == delete(n.stack[path[1] + 1], SliceFrom(path, BRANCH_NODE_NIBBLES),
                                 fetcher, hinter)
                 IN  ThenCollapse(d, Branch(SetStack(n.stack, path[1], d.node)),
                                  fetcher, hinter)
      [] OTHER -> DeleteUnblinded(unblind(n, fetcher), path, fetcher, hinter)

(***************************************************************************)
(* The reference: alloy_trie::HashBuilder fed the key-value set in sorted  *)
(* order computes the root of the canonical trie of that set.  kvs is a    *)
(* function from paths to values; d nibbles of every path of S are shared  *)
(* and already consumed.                                                   *)
(***************************************************************************)
\* Length of the longest prefix common to all paths of S.
SharedLen(S) ==
    LET p == CHOOSE q \in S : TRUE IN
    CHOOSE l \in 0..Len(p) :
        /\ \A q \in S : Len(q) >= l /\ SliceTo(q, l) = SliceTo(p, l)
        /\ \A m \in (l + 1)..Len(p) : \E q \in S : Len(q) < m \/ SliceTo(q, m) # SliceTo(p, m)

RECURSIVE RefRlp(_, _, _), RefChildren(_, _, _, _)

\* A child reference: the encoding itself when shorter than 32 bytes, else its digest.
RefRef(enc) == IF EncLen(enc) < B256_LEN THEN enc ELSE B256Encode(keccak256(enc))

RefList(payload) == HeaderEncode(TRUE, EncLen(payload)) \o payload

RefRlp(kvs, S, d) ==
    IF Cardinality(S) = 1
    THEN LET p == CHOOSE q \in S : TRUE IN
         RefList(BytesEncode(encode_path_leaf(SliceFrom(p, d), TRUE)) \o BytesEncode(kvs[p]))
    ELSE LET l == SharedLen(S)
             p == CHOOSE q \in S : TRUE
         IN  IF l > d
             THEN RefList(BytesEncode(encode_path_leaf(SubSeq(p, d + 1, l), FALSE))
                          \o RefRef(RefRlp(kvs, S, l)))
             ELSE RefList(RefChildren(kvs, S, d, 0) \o <<Byte(EMPTY_STRING_CODE)>>)

RefChildren(kvs, S, d, i) ==
    IF i = 16 THEN <<>>
    ELSE LET Si == {q \in S : q[d + 1] = i} IN
         (IF Si = {} THEN <<Byte(EMPTY_STRING_CODE)>> ELSE RefRef(RefRlp(kvs, Si, d + 1)))
         \o RefChildren(kvs, S, d, i + 1)

\* HashBuilder::root
HashBuilderRoot(kvs) ==
    IF DOMAIN kvs = {} THEN EMPTY_ROOT_HASH
    ELSE keccak256(RefRlp(kvs, DOMAIN kvs, 0))

(***************************************************************************)
(* Inputs.                                                                 *)
(***************************************************************************)
\* The nibbles paths are made of.
InputNibbles == {0, 1}

RECURSIVE PathsOfLen(_)
PathsOfLen(l) ==
    IF l = 0 THEN {<<>>}
    ELSE {<<x>> \o p : x \in InputNibbles, p \in PathsOfLen(l - 1)}

Paths == PathsOfLen(PathLen)

\* A value that encodes in one byte, and one that makes every leaf holding it
\* longer than 31 bytes.
ShortValue == <<1>>
LongValue == [i \in 1..32 |-> 170]
Values == {ShortValue, LongValue}

(***************************************************************************)
(* State.                                                                  *)
(***************************************************************************)
VARIABLES
    root,   \* the root TrieNode
    kv,     \* the bindings made by the inserts and deletes that returned Ok
    last,   \* the last call on the trie and what it returned
    snode,  \* the root of a trie opened from a commitment
    slog,   \* the calls the last operation on snode made to the fetcher and the hinter
    scall,  \* the last operation on snode and what it returned
    sops,   \* the number of operations made on snode
    cache,  \* InMemoryOracle.cache: the table from keys to preimages
    verified, \* what the verify pass over cache did: "none" before it ran
    ocall,  \* the last read of the InMemoryOracle and what it returned
    mpc,    \* where the running program is in its main
    mrun,   \* the running program: its claim, what it produced, how it ended
    hpipe,  \* the hint pipe: bytes on their way toHost and toClient
    opipe,  \* the oracle pipe: the key requests on their way to the host
    fetch,  \* the fetch in progress and what it did so far
    pcall,  \* the last call on an oracle-backed provider and what it returned
    tdb,    \* the TrieCacheDB: its fields, the last call on it and what it returned
    sysc,  \* the SystemConfig, the rollup config and the last call of eip_1559_params
    bupd,  \* the log data given to BatcherUpdate::try_from and what it returned
    actors,  \* the tasks of spawn_and_wait, the cancellation token and where the macro is
    gossip,  \* the GossipDriver: dialed_peers, peerstore, peer_redialing and the last dial of the swarm
    cdb,  \* the CacheDB: its accounts and contracts, the commits that cleared an account, the last call
    dpipe,  \* the DerivationPipeline: prepared, the advances of the origin, what was produced and popped, the last call
    span,  \* one call of SpanBatch::check_batch: its inputs and the validity it returned
    interop,  \* one run of the interop program: what boot loaded, what ran and what run returned
    fdc  \* one clone of a FileDescriptor: the build, the descriptor, the frames of clone on the stack and what came of it

trieVars == <<root, kv, last>>
sparseVars == <<snode, slog, scall, sops>>
oracleVars == <<cache, verified, ocall>>
mainVars == <<mpc, mrun>>
hintVars == <<hpipe, opipe, fetch>>
lateVars == <<sysc, bupd, actors, gossip, cdb, dpipe, span, interop, fdc>>
vars == <<trieVars, sparseVars, oracleVars, mainVars, hintVars, pcall, tdb, lateVars>>

\* The state of a part of the program that is not in use.
Unused == [used |-> FALSE]

\* The parts named in used apart, the parts declared after tdb are not in use.
LateIdle(used) ==
    /\ ("sysc" \in used \/ sysc = Unused)
    /\ ("bupd" \in used \/ bupd = Unused)
    /\ ("actors" \in used \/ actors = Unused)
    /\ ("gossip" \in used \/ gossip = Unused)
    /\ ("cdb" \in used \/ cdb = Unused)
    /\ ("dpipe" \in used \/ dpipe = Unused)
    /\ ("span" \in used \/ span = Unused)
    /\ ("interop" \in used \/ interop = Unused)
    /\ ("fdc" \in used \/ fdc = Unused)

\* A step of the parts named in used leaves the other parts as they are.
KeepOthers(used) ==
    /\ UNCHANGED <<trieVars, sparseVars, oracleVars, mainVars, hintVars, pcall, tdb>>
    /\ ("sysc" \in used \/ UNCHANGED sysc)
    /\ ("bupd" \in used \/ UNCHANGED bupd)
    /\ ("actors" \in used \/ UNCHANGED actors)
    /\ ("gossip" \in used \/ UNCHANGED gossip)
    /\ ("cdb" \in used \/ UNCHANGED cdb)
    /\ ("dpipe" \in used \/ UNCHANGED dpipe)
    /\ ("span" \in used \/ UNCHANGED span)
    /\ ("interop" \in used \/ UNCHANGED interop)
    /\ ("fdc" \in used \/ UNCHANGED fdc)

\* A call: prior is what the path was bound to before the call, afterInsert
\* whether the call before it was an insert of the same path that returned Ok.
NoCall == [op |-> "none", path |-> <<>>, value |-> <<>>, ok |-> TRUE, err |-> "",
           val |-> None, prior |-> None, afterInsert |-> FALSE]

Call(op, path, value, r) ==
    [op |-> op, path |-> path, value |-> value, ok |-> r.ok, err |-> r.err,
     val |-> r.val, prior |-> IF path \in DOMAIN kv THEN Some(kv[path]) ELSE None,
     afterInsert |-> last.op = "insert" /\ last.ok /\ last.path = path]

\* kv without the binding of p.
Unbind(f, p) == [q \in DOMAIN f \ {p} |-> f[q]]

\* kv with p bound to v.
Bind(f, p, v) == [q \in DOMAIN f \cup {p} |-> IF q = p THEN v ELSE f[q]]

TrieInit ==
    /\ root = Empty
    /\ kv = <<>>
    /\ last = NoCall

\* The trie opened from a commitment is not in use.
SparseIdle ==
    /\ snode = Empty
    /\ slog = <<>>
    /\ scall = NoCall
    /\ sops = 0

\* No read of the in-memory oracle was made.
NoOracleCall == [op |-> "none", key |-> <<>>, buf |-> <<>>, status |-> "ok", out |-> <<>>]

\* No in-memory oracle was built.
OracleIdle ==
    /\ cache = <<>>
    /\ verified = "none"
    /\ ocall = NoOracleCall

\* A run of program prog on the claim boot: nothing produced, no preimage used,
\* and for the host the tasks of the server and of the client.
NewRun(prog, boot) ==
    [prog |-> prog, boot |-> boot, number |-> None, output_root |-> None,
     used |-> FALSE, status |-> "running", server |-> "running", client |-> "running"]

\* No program runs.
MainIdle ==
    /\ mpc = "idle"
    /\ mrun = NewRun("none", None)

\* A fetch of kind for hash: written is what its hint write put on the hint pipe,
\* acks the number of acknowledgement bytes that write read and ack the last of
\* them, hinted what the write returned, sent whether the key request went on
\* the oracle pipe, n the number of fetches made so far.
NewFetch(kind, hash, pc) ==
    [kind |-> kind, hash |-> hash, pc |-> pc, written |-> <<>>, acks |-> 0, ack |-> None,
     hinted |-> "none", sent |-> FALSE, n |-> 0]

\* No fetch was made and the pipes are empty.
HintIdle ==
    /\ hpipe = [toHost |-> <<>>, toClient |-> <<>>]
    /\ opipe = <<>>
    /\ fetch = NewFetch("none", None, "idle")

\* No provider was called.
ProviderIdle == pcall = [provider |-> "none"]

\* No TrieCacheDB was built.
DBIdle == tdb = [built |-> FALSE]

\* The call returned r: the receiver is as the call left it, and the bindings are
\* bindings when it returned Ok.
TrieReturn(op, p, v, r, bindings) ==
    /\ root' = r.node
    /\ kv' = IF r.ok THEN bindings ELSE kv
    /\ last' = Call(op, p, v, r)
    /\ UNCHANGED <<sparseVars, oracleVars, mainVars, hintVars, pcall, tdb, lateVars>>

\* node.insert(&path, value, &NoopTrieProvider)
Insert(p, v) ==
    /\ Cardinality(DOMAIN kv \cup {p}) <= MaxKeys
    /\ TrieReturn("insert", p, v, insert(root, p, v, FailingFetcher), Bind(kv, p, v))

\* node.delete(&path, &NoopTrieProvider, &NoopTrieHinter)
Delete(p) ==
    /\ p \in Paths
    /\ TrieReturn("delete", p, <<>>, delete(root, p, FailingFetcher, [ok |-> TRUE]),
                  Unbind(kv, p))

Init == TrieInit /\ SparseIdle /\ OracleIdle /\ MainIdle /\ HintIdle /\ ProviderIdle /\ LateIdle({}) /\ DBIdle

Next ==
    \/ \E p \in Paths, v \in Values : Insert(p, v)
    \/ \E p \in Paths : Delete(p)

Spec == Init /\ [][Next]_vars

(***************************************************************************)
(* A trie opened from the commitment of its root, as TrieDB opens the      *)
(* state trie: nodes are fetched on demand.                                *)
(***************************************************************************)
RECURSIVE TrieOfKeys(_, _)

\* The trie that inserting the bindings of kvs on the paths of S builds.
TrieOfKeys(kvs, S) ==
    IF S = {} THEN Empty
    ELSE LET p == CHOOSE q \in S : TRUE IN
         insert(TrieOfKeys(kvs, S \ {p}), p, kvs[p], FailingFetcher).node

SparsePaths == PathsOfLen(SparsePathLen)

\* The key-value sets whose tries are opened.
Seeds ==
    UNION {[S -> {LongValue}] :
           S \in {T \in SUBSET SparsePaths : Cardinality(T) >= 1 /\ Cardinality(T) <= MaxKeys}}

\* The fetchers an operation on path p is run against: the last one serves a
\* leaf that binds p to a value of its choice, whatever commitment is asked.
Fetchers(p) == {HonestFetcher, FailingFetcher, LyingFetcher(Leaf(p, ShortValue))}

Hinters == {[ok |-> TRUE], [ok |-> FALSE]}

SCall(op, path, value, r) ==
    [op |-> op, path |-> path, value |-> value, ok |-> r.ok, err |-> r.err,
     val |-> r.val, prior |-> None, afterInsert |-> FALSE]

\* The program goes on after a call unless the call aborted it.
Running == sops < MaxOps /\ scall.err # "panic"

SparseInit ==
    /\ snode \in {blind(TrieOfKeys(kvs, DOMAIN kvs)) : kvs \in Seeds}
    /\ slog = <<>>
    /\ scall = NoCall
    /\ sops = 0

\* The call returned r, having made the calls of r.log to the fetcher and hinter.
SparseReturn(op, p, v, r) ==
    /\ snode' = r.node
    /\ slog' = r.log
    /\ scall' = SCall(op, p, v, r)
    /\ sops' = sops + 1
    /\ UNCHANGED <<trieVars, oracleVars, mainVars, hintVars, pcall, tdb, lateVars>>

\* node.open(&path, &fetcher)
SOpen(p, f) == Running /\ SparseReturn("open", p, <<>>, open(snode, p, f))

\* node.insert(&path, value, &fetcher)
SInsert(p, v, f) == Running /\ SparseReturn("insert", p, v, insert(snode, p, v, f))

\* node.delete(&path, &fetcher, &hinter)
SDelete(p, f, h) == Running /\ SparseReturn("delete", p, <<>>, delete(snode, p, f, h))

\* node.blind()
SBlind == Running /\ SparseReturn("blind", <<>>, <<>>, OkRes(blind(snode), None, <<>>))

InitSparse ==
    SparseInit /\ TrieInit /\ OracleIdle /\ MainIdle /\ HintIdle /\ ProviderIdle /\ LateIdle({}) /\ DBIdle

NextSparse ==
    \/ \E p \in SparsePaths : \E f \in Fetchers(p) : SOpen(p, f)
    \/ \E p \in SparsePaths, v \in Values : \E f \in Fetchers(p) : SInsert(p, v, f)
    \/ \E p \in SparsePaths, h \in Hinters : \E f \in Fetchers(p) : SDelete(p, f, h)
    \/ SBlind

SpecSparse == InitSparse /\ [][NextSparse]_vars

(***************************************************************************)
(* One call of open, delete or blind on a trie that inserts built, or one   *)
(* encoding of it that is decoded again; open and delete with a path of    *)
(* any length: TrieNode's operations take any Nibbles.                     *)
(***************************************************************************)
\* The paths of at most PathLen nibbles.
AnyPaths == UNION {PathsOfLen(l) : l \in 0..PathLen}

\* node.open(&path, &NoopTrieProvider)
OpenPath(p) ==
    /\ last.op = "none"
    /\ TrieReturn("open", p, <<>>, open(root, p, FailingFetcher), kv)

\* node.delete(&path, &NoopTrieProvider, &NoopTrieHinter)
DeletePath(p) ==
    /\ last.op = "none"
    /\ TrieReturn("delete", p, <<>>, delete(root, p, FailingFetcher, [ok |-> TRUE]),
                  Unbind(kv, p))

\* node.blind()
Blind ==
    /\ last.op = "none"
    /\ TrieReturn("blind", <<>>, <<>>, OkRes(blind(root), None, <<>>), kv)

\* The root takes the place of what its encoding decodes to:
\* node.encode(&mut rlp_buf); TrieNode::decode(&mut rlp_buf.as_slice())
EncodeDecode(d) ==
    /\ last.op = "none"
    /\ TrieReturn("decode", <<>>, <<>>,
                  IF d.ok THEN OkRes(d.node, None, <<>>) ELSE ErrRes("RLPError", root, <<>>),
                  kv)

\* A value that makes a leaf with two or three nibbles of path encode in exactly
\* 32 bytes, and a leaf with a shorter path in 30.
EdgeValue == [i \in 1..27 |-> 170]

\* The trie that inserting at most MaxKeys bindings of paths of PathLen nibbles
\* built.
InitLookup ==
    /\ kv \in UNION {[S -> {ShortValue, EdgeValue}] :
                      S \in {T \in SUBSET Paths : Cardinality(T) <= MaxKeys}}
    /\ root = TrieOfKeys(kv, DOMAIN kv)
    /\ last = NoCall
    /\ SparseIdle /\ OracleIdle /\ MainIdle /\ HintIdle /\ ProviderIdle /\ LateIdle({}) /\ DBIdle

NextLookup ==
    \/ \E p \in AnyPaths : OpenPath(p)
    \/ \E p \in AnyPaths : DeletePath(p)
    \/ Blind
    \/ EncodeDecode(decode(encode(root)))

SpecLookup == InitLookup /\ [][NextLookup]_vars

(***************************************************************************)
(* The in-memory oracle of the zkVM client and its verify pass             *)
(* (bin/programs/zkvm-client/src/oracle.rs, precompile.rs).                *)
(***************************************************************************)
\* Sha256::digest
sha256(buf) == [sha256 |-> buf]

\* The 32 bytes of a digest: its first byte and the 31 bytes after it.
B256Bytes(d) == <<[byte0 |-> d], [tail |-> d]>>

KeyTypes == {"Local", "Keccak256", "GlobalGeneric", "Sha256", "Blob", "Precompile"}

\* PreimageKey::new: the type byte takes the place of the first of the 32 bytes.
PreimageKey(word, type) == [type |-> type, data |-> word[2]]

\* <PreimageKey as Into<[u8; 32]>>::into
KeyBytes(key) == <<key.type, key.data>>

\* Hint data of a precompile call: the 20 bytes of the address of ECRECOVER.
HintData == Bytes([i \in 1..ADDR_LEN |-> IF i = ADDR_LEN THEN 1 ELSE 0])

\* The preimages the tables hold.
OracleValues == {Bytes(<<1>>), HintData}

\* The keys the tables hold: every key type on the digests of the preimages.
OracleKeys ==
    {PreimageKey(B256Bytes(d), t) :
        d \in {keccak256(v) : v \in OracleValues} \cup {sha256(v) : v \in OracleValues},
        t \in KeyTypes}

\* The tables of at most n entries.
RECURSIVE TablesOf(_)
TablesOf(n) ==
    IF n = 0 THEN {<<>>}
    ELSE LET T == TablesOf(n - 1) IN
         T \cup {Bind(t, k, v) : t \in T, k \in OracleKeys, v \in OracleValues}

\* Precompile::from_bytes: "panic", or the precompile.
from_bytes(hint_data) ==
    IF Len(hint_data) < ADDR_LEN THEN "panic"
    ELSE IF ADDR_LEN # U128_LEN THEN "panic"
    ELSE IF BEValue(SubSeq(hint_data, 1, ADDR_LEN)) = 1
         THEN IF Len(hint_data) - ADDR_LEN < ECRECOVER_INPUT_LEN THEN "panic"
              ELSE "ECRECOVER"
    ELSE "panic"

\* Precompile::execute
execute(precompile) == "panic"

\* One turn of the loop of verify, on the entry of key: "ok" when the loop goes on.
VerifyEntry(table, key) ==
    CASE key.type = "Local" -> "ok"
      [] key.type = "Keccak256" ->
            IF key = PreimageKey(B256Bytes(keccak256(table[key])), "Keccak256")
            THEN "ok" ELSE "panic"
      [] key.type = "GlobalGeneric" -> "panic"
      [] key.type = "Sha256" ->
            IF key = PreimageKey(B256Bytes(sha256(table[key])), "Sha256")
            THEN "ok" ELSE "panic"
      [] key.type = "Blob" -> "panic"
      [] key.type = "Precompile" ->
            IF PreimageKey(KeyBytes(key), "Keccak256") \in DOMAIN table
            THEN IF from_bytes(table[PreimageKey(KeyBytes(key), "Keccak256")]) = "panic"
                 THEN "panic"
                 ELSE IF execute(from_bytes(table[PreimageKey(KeyBytes(key), "Keccak256")]))
                            = "panic"
                      THEN "panic"
                 ELSE IF execute(from_bytes(table[PreimageKey(KeyBytes(key), "Keccak256")]))
                            = table[key]
                      THEN "ok" ELSE "panic"
            ELSE "ok"

\* InMemoryOracle::verify: Ok(()) unless a turn of the loop aborted the program.
verify(table) ==
    IF \E key \in DOMAIN table : VerifyEntry(table, key) = "panic" THEN "panic" ELSE "ok"

\* The table is any table of at most MaxEntries entries.
OracleInit ==
    /\ cache \in TablesOf(MaxEntries)
    /\ verified = "none"
    /\ ocall = NoOracleCall

\* oracle.verify()
Verify ==
    /\ verified = "none"
    /\ verified' = verify(cache)
    /\ UNCHANGED <<cache, ocall, trieVars, sparseVars, mainVars, hintVars, pcall, tdb, lateVars>>

InitVerify ==
    OracleInit /\ TrieInit /\ SparseIdle /\ MainIdle /\ HintIdle /\ ProviderIdle /\ LateIdle({}) /\ DBIdle

NextVerify == Verify

SpecVerify == InitVerify /\ [][NextVerify]_vars

(***************************************************************************)
(* The reads of the in-memory oracle: get and get_exact of                 *)
(* <InMemoryOracle as PreimageOracleClient>                                *)
(* (bin/programs/zkvm-client/src/oracle.rs), which mem_oracle.rs and       *)
(* oracle/mem_oracle.rs repeat.                                            *)
(***************************************************************************)

\* InMemoryOracle::get
get(table, key) == IF key \in DOMAIN table THEN Some(table[key]) ELSE None

\* buf.copy_from_slice(value): the two slices have the same length, or the
\* program aborts before a byte is copied.
copy_from_slice(buf, value) ==
    IF Len(buf) # Len(value) THEN [status |-> "panic", buf |-> buf]
    ELSE [status |-> "ok", buf |-> value]

\* InMemoryOracle::get_exact: status is "ok" for Ok(()), "err" for an Err
\* returned and "panic" for an abort, buf is the buffer after the call.
get_exact(table, key, buf) ==
    IF ~get(table, key).some THEN [status |-> "err", buf |-> buf]
    ELSE copy_from_slice(buf, get(table, key).v)

\* The bytes a buffer of n bytes holds before the call.
Buffer(n) == Bytes([i \in 1..n |-> 255])

\* The lengths of the buffers: those of the preimages and one more.
BufferLens == {1, 2, ADDR_LEN}

\* The program runs until it aborts.
OracleRunning == ocall.status # "panic"

OracleReturn(call) ==
    /\ ocall' = call
    /\ UNCHANGED <<cache, verified, trieVars, sparseVars, mainVars, hintVars, pcall, tdb, lateVars>>

\* oracle.get(key).await
OracleGet(key) ==
    /\ OracleRunning
    /\ OracleReturn([op |-> "get", key |-> key, buf |-> <<>>,
                     status |-> IF get(cache, key).some THEN "ok" ELSE "err",
                     out |-> get(cache, key).v])

\* oracle.get_exact(key, &mut buf).await
OracleGetExact(key, buf) ==
    /\ OracleRunning
    /\ OracleReturn([op |-> "get_exact", key |-> key, buf |-> buf,
                     status |-> get_exact(cache, key, buf).status,
                     out |-> get_exact(cache, key, buf).buf])

\* The table holds at most one entry.
InitOracle ==
    /\ cache \in TablesOf(1)
    /\ verified = "none"
    /\ ocall = NoOracleCall
    /\ TrieInit /\ SparseIdle /\ MainIdle /\ HintIdle /\ ProviderIdle /\ LateIdle({}) /\ DBIdle

NextOracle ==
    \/ \E key \in OracleKeys : OracleGet(key)
    \/ \E key \in OracleKeys, n \in BufferLens : OracleGetExact(key, Buffer(n))

SpecOracle == InitOracle /\ [][NextOracle]_vars

(***************************************************************************)
(* The programs: main of the zkVM client built for the zkVM ("zk") and for *)
(* online mode ("online") (bin/programs/zkvm-client/src/main.rs), main of  *)
(* the SP1 program (bin/host/src/sp1/program/src/main.rs), and the host    *)
(* running the client natively (bin/host/src/single/cfg.rs).  Derivation   *)
(* and execution are steps that read a preimage, fail or succeed, and      *)
(* produce some block number and some output root.                         *)
(***************************************************************************)
Blocks == 0..MaxBlock

OutputRoots == {keccak256(Bytes(<<n>>)) : n \in Blocks}

\* The program goes to pc as run, the verify pass being v.
Goes(pc, run, v) ==
    /\ mpc' = pc
    /\ mrun' = run
    /\ verified' = v
    /\ UNCHANGED <<cache, ocall, trieVars, sparseVars, hintVars, pcall, tdb, lateVars>>

\* The prologue: the boot info and the oracle are read, or an unwrap aborts.
Prologue(ok) ==
    /\ mpc = "start"
    /\ mrun.prog \in {"zk", "online", "sp1-program"}
    /\ IF ok THEN Goes("prologue", mrun, verified)
       ELSE Goes("aborted", [mrun EXCEPT !.status = "panic"], verified)

\* DerivationDriver::new(..).await.unwrap(), produce_disputed_payload().await.unwrap():
\* the in-memory oracle is asked for key.
Derive(key, ok) ==
    /\ mpc = "prologue"
    /\ mrun.prog \in {"zk", "online"}
    /\ IF ok /\ (mrun.prog = "zk" => get(cache, key).some)
       THEN Goes("derived", [mrun EXCEPT !.used = TRUE], verified)
       ELSE Goes("aborted", [mrun EXCEPT !.status = "panic"], verified)

\* executor.execute_payload(attributes).unwrap(), compute_output_root().unwrap()
Execute(key, ok, number, output_root) ==
    /\ mpc = "derived"
    /\ IF ok /\ (mrun.prog = "zk" => get(cache, key).some)
       THEN Goes("executed", [mrun EXCEPT !.number = Some(number),
                                          !.output_root = Some(output_root)], verified)
       ELSE Goes("aborted", [mrun EXCEPT !.status = "panic"], verified)

\* The epilogue with the second assert_eq left out.
EpilogueComparingNumberOnly ==
    /\ mpc = "executed"
    /\ IF mrun.number.v = mrun.boot.l2_claim_block
       THEN Goes("done", [mrun EXCEPT !.status = "exit0"], verified)
       ELSE Goes("aborted", [mrun EXCEPT !.status = "panic"], verified)

\* The epilogue: the two assert_eq, then main returns.
Epilogue ==
    /\ mpc = "executed"
    /\ IF mrun.number.v # mrun.boot.l2_claim_block
       THEN Goes("aborted", [mrun EXCEPT !.status = "panic"], verified)
       ELSE IF mrun.output_root.v # mrun.boot.l2_claim
       THEN Goes("aborted", [mrun EXCEPT !.status = "panic"], verified)
       ELSE Goes("done", [mrun EXCEPT !.status = "exit0"], verified)

\* oracle.verify().expect("key value verification failed")
VerifyPass ==
    /\ mpc = "prologue"
    /\ mrun.prog = "sp1-program"
    /\ IF verify(cache) = "ok" THEN Goes("verified", mrun, "ok")
       ELSE Goes("aborted", [mrun EXCEPT !.status = "panic"], "panic")

\* run_opsuccinct_client(oracle, ..).await.expect("failed to run client"), then
\* the commit: the client is asked for key.
RunClient(key, ok) ==
    /\ mpc = "verified"
    /\ IF ok /\ get(cache, key).some
       THEN Goes("done", [mrun EXCEPT !.used = TRUE, !.status = "exit0"], verified)
       ELSE Goes("aborted", [mrun EXCEPT !.status = "panic"], verified)

\* A task spawned by start_native ends: it returned Ok or Err, or it panicked.
TaskEnds(task, result) ==
    /\ mpc = "start"
    /\ mrun.prog = "host-native"
    /\ mrun[task] = "running"
    /\ Goes("start", [mrun EXCEPT ![task] = result], verified)

\* tokio::try_join!(server_task, client_task)? and the exit that follows.
Join ==
    /\ mpc = "start"
    /\ mrun.prog = "host-native"
    /\ IF "panicked" \in {mrun.server, mrun.client}
       THEN Goes("done", [mrun EXCEPT !.status = "err"], verified)
       ELSE /\ "running" \notin {mrun.server, mrun.client}
            /\ Goes("done", [mrun EXCEPT !.status = IF mrun.client = "Err" THEN "exit1"
                                                    ELSE "exit0"], verified)

\* A program starts on a claim; the programs of the zkVM hold a table.
InitMain ==
    /\ mpc = "start"
    /\ mrun \in {NewRun(prog, [l2_claim_block |-> b, l2_claim |-> r]) :
                    prog \in {"zk", "online", "sp1-program", "host-native"},
                    b \in Blocks, r \in OutputRoots}
    /\ cache \in IF mrun.prog \in {"zk", "sp1-program"} THEN TablesOf(1) ELSE {<<>>}
    /\ verified = "none"
    /\ ocall = NoOracleCall
    /\ TrieInit /\ SparseIdle /\ HintIdle /\ ProviderIdle /\ LateIdle({}) /\ DBIdle

NextMain ==
    \/ \E ok \in BOOLEAN : Prologue(ok)
    \/ \E key \in OracleKeys, ok \in BOOLEAN : Derive(key, ok)
    \/ \E key \in OracleKeys, ok \in BOOLEAN, number \in Blocks, output_root \in OutputRoots :
            Execute(key, ok, number, output_root)
    \/ Epilogue
    \/ VerifyPass
    \/ \E key \in OracleKeys, ok \in BOOLEAN : RunClient(key, ok)
    \/ \E task \in {"server", "client"}, result \in {"Ok", "Err", "panicked"} :
            TaskEnds(task, result)
    \/ Join

SpecMain == InitMain /\ [][NextMain]_vars

(***************************************************************************)
(* The hint pipe and the oracle pipe: HintWriter::write                    *)
(* (crates/preimage/src/hint.rs) and the fetches of the Ethereum program   *)
(* (bin/programs/ethereum/src/kona.rs).  A fetch that fails ends the       *)
(* program: main expects or unwraps every one of them.                     *)
(***************************************************************************)
\* u32::to_le_bytes(n as u32): the four low bytes of n, the lowest first.
to_le_bytes(n) == <<Byte(n % 256), Byte((n \div 256) % 256), Byte((n \div 65536) % 256),
                    Byte((n \div 16777216) % 256)>>

\* u32::to_be_bytes(n as u32): the four low bytes of n, the highest first.
to_be_bytes(n) == <<Byte((n \div 16777216) % 256), Byte((n \div 65536) % 256),
                    Byte((n \div 256) % 256), Byte(n % 256)>>

\* HintType::X.encode_with(&[payload]): a byte naming the hint type, a space, and
\* the payload, which is the block number for get_block_with_senders and the
\* hash otherwise.
HintOf(kind, hash) ==
    <<Byte(CASE kind = "get_block_with_senders" -> 1
             [] kind = "header_by_hash" -> 2
             [] kind = "bytecode_by_hash" -> 3
             [] OTHER -> 4),
      Byte(32)>> \o (IF kind = "get_block_with_senders" THEN hash.keccak ELSE <<HashTok(hash)>>)

\* A fetch of the fetcher begins; trie_node_preimage writes no hint.
Fetch(kind, hash) ==
    /\ fetch.pc = "idle"
    /\ fetch.n < MaxFetches
    /\ fetch' = [NewFetch(kind, hash, IF kind = "trie_node_preimage" THEN "get" ELSE "write")
                    EXCEPT !.n = fetch.n + 1]
    /\ UNCHANGED <<hpipe, opipe, trieVars, sparseVars, oracleVars, mainVars, pcall, tdb, lateVars>>

\* HintWriter::write up to self.pipe_handle.write(&hint_bytes)?
HintWrite(ok) ==
    /\ fetch.pc = "write"
    /\ IF ok
       THEN /\ hpipe' = [hpipe EXCEPT !.toHost = @ \o
                            to_be_bytes(EncLen(HintOf(fetch.kind, fetch.hash)))
                            \o HintOf(fetch.kind, fetch.hash)]
            /\ fetch' = [fetch EXCEPT !.pc = "ack", !.written =
                            to_be_bytes(EncLen(HintOf(fetch.kind, fetch.hash)))
                            \o HintOf(fetch.kind, fetch.hash)]
       ELSE /\ hpipe' = hpipe
            /\ fetch' = [fetch EXCEPT !.pc = "failed", !.hinted = "err"]
    /\ UNCHANGED <<opipe, trieVars, sparseVars, oracleVars, mainVars, pcall, tdb, lateVars>>

\* The host reads one hint off the pipe, the length and then as many bytes, and
\* acknowledges it with one byte.
HostHint(ack) ==
    /\ Len(hpipe.toHost) >= 4
    /\ TakeBytes(SubSeq(hpipe.toHost, 5, Len(hpipe.toHost)),
                 BEValue(SubSeq(hpipe.toHost, 1, 4))).ok
    /\ hpipe' = [toHost |-> TakeBytes(SubSeq(hpipe.toHost, 5, Len(hpipe.toHost)),
                                      BEValue(SubSeq(hpipe.toHost, 1, 4))).rest,
                 toClient |-> Append(hpipe.toClient, Byte(ack))]
    /\ UNCHANGED <<opipe, fetch, trieVars, sparseVars, oracleVars, mainVars, pcall, tdb, lateVars>>

\* HintWriter::write from self.pipe_handle.read_exact(&mut hint_ack)? on: the read
\* waits for one byte, or fails.
HintAck(ok) ==
    /\ fetch.pc = "ack"
    /\ IF ok
       THEN /\ hpipe.toClient # <<>>
            /\ hpipe' = [hpipe EXCEPT !.toClient = Tail(@)]
            /\ fetch' = [fetch EXCEPT !.pc = "get", !.acks = @ + 1,
                                      !.ack = Some(Head(hpipe.toClient).v), !.hinted = "ok"]
       ELSE /\ hpipe' = hpipe
            /\ fetch' = [fetch EXCEPT !.pc = "failed", !.hinted = "err"]
    /\ UNCHANGED <<opipe, trieVars, sparseVars, oracleVars, mainVars, pcall, tdb, lateVars>>

\* The key request goes on the oracle pipe whether or not the hint was acknowledged.
GetBeforeAck ==
    /\ fetch.pc \in {"ack", "get"}
    /\ opipe' = Append(opipe, PreimageKey(B256Bytes(fetch.hash), "Keccak256"))
    /\ fetch' = [fetch EXCEPT !.pc = "read", !.sent = TRUE]
    /\ UNCHANGED <<hpipe, trieVars, sparseVars, oracleVars, mainVars, pcall, tdb, lateVars>>

\* self.oracle.get(PreimageKey::new(*hash, PreimageKeyType::Keccak256)): the key
\* request goes on the oracle pipe.
Get ==
    /\ fetch.pc = "get"
    /\ opipe' = Append(opipe, PreimageKey(B256Bytes(fetch.hash), "Keccak256"))
    /\ fetch' = [fetch EXCEPT !.pc = "read", !.sent = TRUE]
    /\ UNCHANGED <<hpipe, trieVars, sparseVars, oracleVars, mainVars, pcall, tdb, lateVars>>

\* The host takes the key request and answers; the fetch returns.  After its
\* get, get_block_with_senders is todo!().
GetReturn(ok) ==
    /\ fetch.pc = "read"
    /\ opipe # <<>>
    /\ opipe' = Tail(opipe)
    /\ fetch' = [fetch EXCEPT !.pc = IF ok /\ fetch.kind # "get_block_with_senders"
                                     THEN "idle" ELSE "failed"]
    /\ UNCHANGED <<hpipe, trieVars, sparseVars, oracleVars, mainVars, pcall, tdb, lateVars>>

InitHint == HintIdle /\ TrieInit /\ SparseIdle /\ OracleIdle /\ MainIdle /\ ProviderIdle /\ LateIdle({}) /\ DBIdle

NextHint ==
    \/ \E kind \in {"get_block_with_senders", "header_by_hash", "bytecode_by_hash",
                    "trie_node_preimage"},
          number \in Blocks :
            Fetch(kind, keccak256(Bytes([i \in 1..8 |-> IF i = 8 THEN number ELSE 0])))
    \/ \E ok \in BOOLEAN : HintWrite(ok)
    \/ \E ack \in {0, 1} : HostHint(ack)
    \/ \E ok \in BOOLEAN : HintAck(ok)
    \/ Get
    \/ \E ok \in BOOLEAN : GetReturn(ok)

SpecHint == InitHint /\ [][NextHint]_vars

(***************************************************************************)
(* The oracle-backed providers, called with the answer of the oracle:      *)
(* OracleL1ChainProvider (zkvm-client/src/l1/chain_provider.rs),           *)
(* OracleL2ChainProvider (zkvm-client/src/l2/chain_provider.rs), the zkVM  *)
(* wrapper (zkvm-client/src/l2/mod.rs) and TrieDBFetcherImpl               *)
(* (ethereum/src/kona.rs).                                                 *)
(***************************************************************************)
Returned(value) == [ok |-> TRUE, err |-> "", value |-> value]

Failed(err) == [ok |-> FALSE, err |-> err, value |-> <<>>]

\* Header::decode: the bytes must be an RLP list.
DecodeHeader(bytes) ==
    IF HeaderDecode(bytes).ok /\ HeaderDecode(bytes).list
    THEN Returned([header |-> bytes]) ELSE Failed("decode")

OracleL1ChainProvider(method, hash, answer) ==
    CASE method = "header_by_hash" ->
            IF ~answer.some THEN Failed("oracle")
            ELSE IF keccak256(answer.v) # hash THEN Failed("panic")
            ELSE DecodeHeader(answer.v)
      [] method = "trie_node_preimage" ->
            IF ~answer.some THEN Failed("panic")
            ELSE IF keccak256(answer.v) # hash THEN Failed("panic")
            ELSE Returned(answer.v)
      [] method = "bytecode_by_hash" -> Failed("panic")

OracleL2ChainProvider(method, hash, answer) ==
    CASE method = "header_by_hash" ->
            IF ~answer.some THEN Failed("oracle")
            ELSE IF keccak256(answer.v) # hash THEN Failed("panic")
            ELSE DecodeHeader(answer.v)
      [] method \in {"trie_node_preimage", "bytecode_by_hash"} ->
            IF ~answer.some THEN Failed("panic")
            ELSE IF keccak256(answer.v) # hash THEN Failed("panic")
            ELSE Returned(answer.v)

WrappingOracleL1ChainProvider(method, hash, answer) ==
    CASE method = "header_by_hash" -> Failed("panic")
      [] method = "trie_node_preimage" -> OracleL1ChainProvider(method, hash, answer)
      [] method = "bytecode_by_hash" -> Failed("panic")

TrieDBFetcherImpl(method, hash, answer) ==
    CASE method = "header_by_hash" ->
            IF ~answer.some THEN Failed("oracle") ELSE DecodeHeader(answer.v)
      [] method \in {"trie_node_preimage", "bytecode_by_hash"} ->
            IF ~answer.some THEN Failed("oracle") ELSE Returned(answer.v)

\* A call of method on provider for hash, the oracle answering answer.
ProviderCall(provider, method, hash, answer) ==
    /\ pcall' = [provider |-> provider, method |-> method, hash |-> hash, answer |-> answer,
                 result |->
                    CASE provider = "OracleL1ChainProvider" ->
                            OracleL1ChainProvider(method, hash, answer)
                      [] provider = "OracleL2ChainProvider" ->
                            OracleL2ChainProvider(method, hash, answer)
                      [] provider = "WrappingOracleL1ChainProvider" ->
                            WrappingOracleL1ChainProvider(method, hash, answer)
                      [] provider = "TrieDBFetcherImpl" ->
                            TrieDBFetcherImpl(method, hash, answer)]
    /\ UNCHANGED <<trieVars, sparseVars, oracleVars, mainVars, hintVars, tdb, lateVars>>

InitProvider == ProviderIdle /\ LateIdle({}) /\ TrieInit /\ SparseIdle /\ OracleIdle /\ MainIdle /\ HintIdle /\ DBIdle

\* The oracle answers with an error or with any of three byte strings, two of
\* them RLP lists.
NextProvider ==
    \E provider \in {"OracleL1ChainProvider", "OracleL2ChainProvider",
                     "WrappingOracleL1ChainProvider", "TrieDBFetcherImpl"},
       method \in {"header_by_hash", "trie_node_preimage", "bytecode_by_hash"},
       preimage \in {Bytes(<<193, 1>>), Bytes(<<193, 2>>), Bytes(<<1>>)},
       answer \in {None} \cup {Some(v) : v \in {Bytes(<<193, 1>>), Bytes(<<193, 2>>), Bytes(<<1>>)}} :
            ProviderCall(provider, method, keccak256(preimage), answer)

SpecProvider == InitProvider /\ [][NextProvider]_vars

(***************************************************************************)
(* The TrieCacheDB: an account cache over the state trie, which is opened  *)
(* from its root commitment as accounts are loaded.                        *)
(***************************************************************************)
KECCAK_EMPTY == keccak256(<<>>)

\* The code of the accounts that have code, and its hash.
Code == <<96>>
CodeHash == keccak256(Bytes(Code))

\* The addresses accounts are asked at, and Nibbles::unpack(keccak256(address)):
\* an address is hashed to a path of SparsePathLen nibbles of its own. Slot
\* indexes are hashed to the paths of a storage trie the same way.
Addresses == 0..(2 ^ SparsePathLen - 1)
\* The addresses that are asked for: the states bind these and the others.
Asked == {0, 1}
HashedPath(address) ==
    [i \in 1..SparsePathLen |-> (address \div 2 ^ (SparsePathLen - i)) % 2]

\* The root of a trie: the commitment of the blinded root node, or the keccak of
\* the root node that is too short to be blinded.
StateRootOf(n) ==
    IF blind(n).type = "Blinded" THEN blind(n).commitment ELSE keccak256(encode(n))

\* The slots that are read, and the storage of the accounts that have storage:
\* slots 0 and 1 hold 5 and 256, and slot 2 was never written. A U256 is its
\* big-endian bytes without leading zeros.
Indexes == {0, 2}
U256_ZERO == <<>>
Slots == (HashedPath(0) :> <<5>>) @@ (HashedPath(1) :> <<130, 1, 0>>)
StorageRoot == StateRootOf(TrieOfKeys(Slots, DOMAIN Slots))

\* U256::decode(&mut slot_value.as_ref())
U256Decode(d) ==
    IF d.ok /\ Len(d.v) <= B256_LEN /\ (d.v = <<>> \/ d.v[1] # 0) THEN d
    ELSE [ok |-> FALSE, v |-> <<>>]

\* The 32 bytes of a digest inside the RLP of an account: one filler byte per
\* digest stands for them.
DigestBytes(h) ==
    [i \in 1..B256_LEN |->
        IF h = EMPTY_ROOT_HASH THEN 86 ELSE IF h = KECCAK_EMPTY THEN 197
        ELSE IF h = CodeHash THEN 204 ELSE 17]

\* The accounts of the state tries.
TrieAccounts ==
    [nonce : {0}, balance : {1}, storage_root : {EMPTY_ROOT_HASH, StorageRoot},
     code_hash : {KECCAK_EMPTY, CodeHash}]

\* An integer below 128 as an RLP string.
U64Encode(x) == IF x = 0 THEN <<EMPTY_STRING_CODE>> ELSE <<x>>

\* #[derive(RlpEncodable)] struct TrieAccount: the list of the four fields,
\* 68 bytes of payload behind a two-byte list header.
TrieAccountEncode(acct) ==
    <<248, 68>> \o U64Encode(acct.nonce) \o U64Encode(acct.balance)
        \o <<EMPTY_STRING_CODE + B256_LEN>> \o DigestBytes(acct.storage_root)
        \o <<EMPTY_STRING_CODE + B256_LEN>> \o DigestBytes(acct.code_hash)

\* TrieAccount::decode(&mut trie_account_rlp.as_ref())
TrieAccountDecode(rlp) ==
    IF \E acct \in TrieAccounts : TrieAccountEncode(acct) = rlp
    THEN [ok |-> TRUE, v |-> CHOOSE acct \in TrieAccounts : TrieAccountEncode(acct) = rlp]
    ELSE [ok |-> FALSE, v |-> CHOOSE acct \in TrieAccounts : TRUE]

\* The states whose root a TrieCacheDB is built on: at most MaxDBKeys hashed
\* addresses, each bound to the RLP of an account or to a value that is not one.
DBStates ==
    UNION {[S -> {TrieAccountEncode(acct) : acct \in TrieAccounts} \cup {ShortValue}] :
           S \in {T \in SUBSET SparsePaths : Cardinality(T) <= MaxDBKeys}}

NoInfo == [nonce |-> 0, balance |-> 0, code_hash |-> KECCAK_EMPTY, code |-> None]

\* AccountInfo::default()
DefaultInfo == [NoInfo EXCEPT !.code = Some(<<>>)]

\* DbAccount { info, ..Default::default() } and DbAccount::new_not_existing()
DbAccount(info) == [info |-> info, account_state |-> "None", storage |-> <<>>]
new_not_existing == [DbAccount(DefaultInfo) EXCEPT !.account_state = "NotExisting"]

\* DbAccount::info(): None for an account that does not exist.
Info(account) ==
    IF account.account_state = "NotExisting" THEN None ELSE Some(account.info)

\* What a call gave beside its result: the slot value or code it returned, the
\* block hash it returned, and the calls it made to the preimage fetcher and to
\* the code fetcher.
NoOut == [value |-> <<>>, hash |-> KECCAK_EMPTY, fetches |-> 0, codes |-> 0]

\* A call on the DB: info is the account info it returned, commitment the last
\* state root that was returned or the DB was built on.
DBCall(op, arg, ok, err, info, commitment, out) ==
    [op |-> op, arg |-> arg, ok |-> ok, err |-> err, info |-> info,
     commitment |-> commitment, out |-> out]

\* TrieCacheDB::new(root, preimage_fetcher, code_by_hash_fetcher); state is the
\* state that root commits to. InMemoryDB::default() knows the empty code.
New(state, r) ==
    [built |-> TRUE, state |-> state,
     accounts |-> <<>>,
     contracts |-> [h \in {KECCAK_EMPTY} |-> <<>>],
     block_hashes |-> <<>>,
     root |-> r,
     root_node |-> Blinded(r),
     storage_roots |-> <<>>,
     calls |-> 0,
     last |-> DBCall("none", None, TRUE, "", None, r, NoOut)]

\* insert_contract: the code of the account enters the contracts unless its
\* hash is there already. The hash of the info is rewritten only when it is
\* KECCAK_EMPTY beside code or zero, which no account of TrieAccounts is.
insert_contract(contracts, info) ==
    IF info.code.some /\ info.code.v # <<>> /\ info.code_hash \notin DOMAIN contracts
    THEN Bind(contracts, info.code_hash, info.code.v)
    ELSE contracts

\* TrieCacheDB::load_account_from_trie(address), where r is what opening the
\* root node at the hashed address returned, acct what decoding the opened value
\* returned and code what the code fetcher answers. The root node is opened in
\* place, so what was opened stays open when the load fails.
load_account_from_trie(db, address, r, acct, code) ==
    LET opened == [db EXCEPT !.root_node = r.node]
        rooted == [opened EXCEPT
                      !.storage_roots = Bind(@, address, Blinded(acct.v.storage_root))]
        info == [nonce |-> acct.v.nonce, balance |-> acct.v.balance,
                 code_hash |-> acct.v.code_hash,
                 code |-> IF acct.v.code_hash # KECCAK_EMPTY THEN code ELSE None]
    IN  IF ~r.ok
        THEN [ok |-> FALSE, err |-> r.err, db |-> opened, info |-> NoInfo,
              fetches |-> Len(r.log), codes |-> 0]
        ELSE IF ~r.val.some
        THEN [ok |-> FALSE, err |-> "KeyNotFound", db |-> opened, info |-> NoInfo,
              fetches |-> Len(r.log), codes |-> 0]
        ELSE IF ~acct.ok
        THEN [ok |-> FALSE, err |-> "Error decoding trie account", db |-> opened,
              info |-> NoInfo, fetches |-> Len(r.log), codes |-> 0]
        ELSE IF acct.v.code_hash # KECCAK_EMPTY /\ ~code.some
        THEN [ok |-> FALSE, err |-> "code fetch", db |-> rooted, info |-> NoInfo,
              fetches |-> Len(r.log), codes |-> 1]
        ELSE [ok |-> TRUE, err |-> "",
              db |-> [rooted EXCEPT !.contracts = insert_contract(@, info)],
              info |-> info, fetches |-> Len(r.log),
              codes |-> IF acct.v.code_hash # KECCAK_EMPTY THEN 1 ELSE 0]

\* What a call of basic or storage returns: the DB it leaves, the info or the
\* slot value, and the calls it made to the fetchers.
DBRes(ok, err, db, info, value, fetches, codes) ==
    [ok |-> ok, err |-> err, db |-> db, info |-> info, value |-> value,
     fetches |-> fetches, codes |-> codes]

\* A faulty basic: the code of the loaded account is left to insert_contract.
BasicLeavingContracts(db, address, l) ==
    IF address \in DOMAIN db.accounts
    THEN DBRes(TRUE, "", db, Info(db.accounts[address]), <<>>, 0, 0)
    ELSE IF ~l.ok
    THEN DBRes(FALSE, l.err, l.db, None, <<>>, l.fetches, l.codes)
    ELSE DBRes(TRUE, "", [l.db EXCEPT !.accounts = Bind(@, address, DbAccount(l.info))],
               Some(l.info), <<>>, l.fetches, l.codes)

\* <TrieCacheDB as Database>::basic(address), where l is what loading the
\* account from the trie returns.
basic(db, address, l) ==
    IF address \in DOMAIN db.accounts
    THEN DBRes(TRUE, "", db, Info(db.accounts[address]), <<>>, 0, 0)
    ELSE IF ~l.ok
    THEN DBRes(FALSE, l.err, l.db, None, <<>>, l.fetches, l.codes)
    ELSE DBRes(TRUE, "",
               [l.db EXCEPT
                   !.contracts = IF l.info.code.some
                                 THEN Bind(@, l.info.code_hash, l.info.code.v)
                                 ELSE @,
                   !.accounts = Bind(@, address, DbAccount(l.info))],
               Some(l.info), <<>>, l.fetches, l.codes)

\* The storage root node the DB keeps for an address.
StorageRootNode(db, address) ==
    IF address \in DOMAIN db.storage_roots THEN db.storage_roots[address] ELSE Empty

\* A faulty storage: only the accounts that do not exist read as zero.
StorageFetchingCleared(db, address, index, r) ==
    IF index \in DOMAIN db.accounts[address].storage
    THEN DBRes(TRUE, "", db, None, db.accounts[address].storage[index], 0, 0)
    ELSE IF db.accounts[address].account_state = "NotExisting"
    THEN DBRes(TRUE, "", db, None, U256_ZERO, 0, 0)
    ELSE DBRes(FALSE, "Storage root not found for account", db, None, <<>>, 0, 0)

\* storage(address, index) for an address that is in the account cache, where r
\* is what opening the storage root of the address at the hashed index returned.
StorageOccupied(db, address, index, r) ==
    IF index \in DOMAIN db.accounts[address].storage
    THEN DBRes(TRUE, "", db, None, db.accounts[address].storage[index], 0, 0)
    ELSE IF db.accounts[address].account_state \in {"StorageCleared", "NotExisting"}
    THEN DBRes(TRUE, "", db, None, U256_ZERO, 0, 0)
    ELSE IF address \notin DOMAIN db.storage_roots
    THEN DBRes(FALSE, "Storage root not found for account", db, None, <<>>, 0, 0)
    ELSE IF ~r.ok \/ ~r.val.some
    THEN DBRes(FALSE, IF r.ok THEN "KeyNotFound" ELSE r.err,
               [db EXCEPT !.storage_roots[address] = r.node], None, <<>>, Len(r.log), 0)
    ELSE IF ~U256Decode(BytesDecode(Bytes(r.val.v))).ok
    THEN DBRes(FALSE, "Failed to decode storage slot value",
               [db EXCEPT !.storage_roots[address] = r.node], None, <<>>, Len(r.log), 0)
    ELSE DBRes(TRUE, "",
               [db EXCEPT !.storage_roots[address] = r.node,
                          !.accounts[address].storage =
                              Bind(@, index, BytesDecode(Bytes(r.val.v)).v)],
               None, BytesDecode(Bytes(r.val.v)).v, Len(r.log), 0)

\* A faulty storage: the account that is loaded for the read is cached without
\* the slot that was read.
StorageForgettingSlot(db, address, index, b, s) ==
    IF address \in DOMAIN db.accounts THEN s
    ELSE IF ~b.ok THEN b
    ELSE IF ~s.ok
    THEN [s EXCEPT !.fetches = @ + b.fetches, !.codes = b.codes]
    ELSE [s EXCEPT !.db.accounts = Bind(@, address, DbAccount(b.info.v)),
                   !.fetches = @ + b.fetches, !.codes = b.codes]

\* <TrieCacheDB as Database>::storage(address, index), where b is what basic
\* returns for the address and s what storage returns once basic has loaded it.
storage(db, address, index, b, s) ==
    IF address \in DOMAIN db.accounts THEN s
    ELSE IF ~b.ok THEN b
    ELSE IF ~b.info.some
    THEN DBRes(TRUE, "", [b.db EXCEPT !.accounts = Bind(@, address, new_not_existing)],
               None, U256_ZERO, b.fetches, b.codes)
    ELSE IF ~s.ok
    THEN [s EXCEPT !.fetches = @ + b.fetches, !.codes = b.codes]
    ELSE [s EXCEPT !.db.accounts =
                       Bind(@, address, [DbAccount(b.info.v) EXCEPT
                                            !.storage = Bind(<<>>, index, s.value)]),
                   !.fetches = @ + b.fetches, !.codes = b.codes]

\* CacheDB::commit(changes) of the account cache, for the one account of the
\* changeset.
commit(db, changes) ==
    LET was == IF changes.address \in DOMAIN db.accounts
               THEN db.accounts[changes.address] ELSE DbAccount(DefaultInfo)
    IN  IF ~changes.touched THEN db
        ELSE IF changes.selfdestructed
        THEN [db EXCEPT !.accounts =
                 Bind(@, changes.address, new_not_existing)]
        ELSE [db EXCEPT
                 !.contracts = insert_contract(@, changes.info),
                 !.accounts =
                     Bind(@, changes.address,
                          [info |-> changes.info,
                           account_state |->
                               IF changes.created \/ was.account_state = "StorageCleared"
                               THEN "StorageCleared" ELSE "Touched",
                           storage |-> [i \in (IF changes.created THEN {}
                                               ELSE DOMAIN was.storage)
                                                  \cup DOMAIN changes.storage |->
                                           IF i \in DOMAIN changes.storage
                                           THEN changes.storage[i] ELSE was.storage[i]]])]

\* What the database under a CacheDB answers to basic and to storage.
ExtAnswers ==
    [basic : {[ok |-> TRUE, info |-> Some(DefaultInfo)], [ok |-> TRUE, info |-> None],
              [ok |-> FALSE, info |-> None]},
     storage : {[ok |-> TRUE, value |-> <<9>>], [ok |-> FALSE, value |-> <<>>]}]

\* <CacheDB as Database>::storage(address, index) on an account cache; fetches
\* counts the calls to the database under it.
CacheDB_storage(db, address, index, ext) ==
    IF address \in DOMAIN db.accounts
    THEN IF index \in DOMAIN db.accounts[address].storage
         THEN DBRes(TRUE, "", db, None, db.accounts[address].storage[index], 0, 0)
         ELSE IF db.accounts[address].account_state \in {"StorageCleared", "NotExisting"}
         THEN DBRes(TRUE, "", db, None, U256_ZERO, 0, 0)
         ELSE IF ~ext.storage.ok THEN DBRes(FALSE, "ExtDB", db, None, <<>>, 1, 0)
         ELSE DBRes(TRUE, "",
                    [db EXCEPT !.accounts[address].storage = Bind(@, index, ext.storage.value)],
                    None, ext.storage.value, 1, 0)
    ELSE IF ~ext.basic.ok THEN DBRes(FALSE, "ExtDB", db, None, <<>>, 1, 0)
    ELSE IF ~ext.basic.info.some
    THEN DBRes(TRUE, "", [db EXCEPT !.accounts = Bind(@, address, new_not_existing)],
               None, U256_ZERO, 1, 0)
    ELSE IF ~ext.storage.ok THEN DBRes(FALSE, "ExtDB", db, None, <<>>, 2, 0)
    ELSE DBRes(TRUE, "",
               [db EXCEPT !.accounts =
                   Bind(@, address, [DbAccount(ext.basic.info.v) EXCEPT
                                        !.storage = Bind(<<>>, index, ext.storage.value)])],
               None, ext.storage.value, 2, 0)

\* The DB goes on after a call unless the call aborted the program.
DBRunning == tdb.calls < MaxDBCalls /\ tdb.last.err # "panic"

DBReturn(db, call) ==
    /\ tdb' = [db EXCEPT !.calls = @ + 1, !.last = call]
    /\ UNCHANGED <<trieVars, sparseVars, oracleVars, mainVars, hintVars, pcall, lateVars>>

\* db.basic(address)
Basic(address, b) ==
    /\ DBRunning
    /\ DBReturn(b.db, DBCall("basic", Some(address), b.ok, b.err, b.info,
                             tdb.last.commitment,
                             [NoOut EXCEPT !.fetches = b.fetches, !.codes = b.codes]))

\* db.storage(address, index)
Storage(address, index, s) ==
    /\ DBRunning
    /\ DBReturn(s.db, DBCall("storage", Some(<<address, index>>), s.ok, s.err, None,
                             tdb.last.commitment,
                             [NoOut EXCEPT !.value = s.value, !.fetches = s.fetches,
                                           !.codes = s.codes]))

\* <TrieCacheDB as Database>::code_by_hash(code_hash): an unknown hash is
\* unreachable!().
CodeByHash(code_hash) ==
    /\ DBRunning
    /\ IF code_hash \in DOMAIN tdb.contracts
       THEN DBReturn(tdb, DBCall("code_by_hash", Some(code_hash), TRUE, "", None,
                                 tdb.last.commitment,
                                 [NoOut EXCEPT !.value = tdb.contracts[code_hash]]))
       ELSE DBReturn(tdb, DBCall("code_by_hash", Some(code_hash), FALSE, "panic", None,
                                 tdb.last.commitment, NoOut))

\* TrieCacheDB::insert_block_hash(number, hash)
InsertBlockHash(number, hash) ==
    /\ DBRunning
    /\ DBReturn([tdb EXCEPT !.block_hashes = Bind(@, number, hash)],
                DBCall("insert_block_hash", Some(number), TRUE, "", None,
                       tdb.last.commitment, [NoOut EXCEPT !.hash = hash]))

\* A faulty block_hash: a number that has no hash reads as the zero hash.
BlockHashDefaulting(number) ==
    /\ DBRunning
    /\ DBReturn(tdb, DBCall("block_hash", Some(number), TRUE, "", None,
                            tdb.last.commitment,
                            [NoOut EXCEPT !.hash =
                                IF number \in DOMAIN tdb.block_hashes
                                THEN tdb.block_hashes[number] ELSE KECCAK_EMPTY]))

\* <TrieCacheDB as Database>::block_hash(number)
BlockHash(number) ==
    /\ DBRunning
    /\ IF number \in DOMAIN tdb.block_hashes
       THEN DBReturn(tdb, DBCall("block_hash", Some(number), TRUE, "", None,
                                 tdb.last.commitment,
                                 [NoOut EXCEPT !.hash = tdb.block_hashes[number]]))
       ELSE DBReturn(tdb, DBCall("block_hash", Some(number), FALSE,
                                 "Block hash for number not found", None,
                                 tdb.last.commitment, NoOut))

\* TrieCacheDB::state_root(), where blinded is self.root_node.clone().blind().
StateRoot(blinded) ==
    /\ DBRunning
    /\ IF blinded.type = "Blinded"
       THEN DBReturn([tdb EXCEPT !.root_node = blinded, !.root = blinded.commitment],
                     DBCall("state_root", None, TRUE, "", None, blinded.commitment, NoOut))
       ELSE DBReturn(tdb, DBCall("state_root", None, FALSE,
                                 "Root node is not a blinded node", None,
                                 tdb.last.commitment, NoOut))

\* The changesets that are committed: one touched account, changed, created or
\* selfdestructed, with a write of 7 to slot 2.
Changesets ==
    {[address |-> a, touched |-> TRUE,
      info |-> [nonce |-> 1, balance |-> 2, code_hash |-> KECCAK_EMPTY, code |-> None],
      selfdestructed |-> s, created |-> c, storage |-> (2 :> <<7>>)] :
        a \in Asked, s \in BOOLEAN, c \in BOOLEAN}

\* <TrieCacheDB as DatabaseCommit>::commit(changes): unimplemented!().
Commit(changes) ==
    /\ DBRunning
    /\ DBReturn(tdb, DBCall("commit", Some(changes), FALSE, "panic", None,
                            tdb.last.commitment, NoOut))

\* db.inner_db_mut().commit(changes): the changeset goes to the account cache
\* and past the trie.
InnerCommit(changes) ==
    /\ DBRunning
    /\ DBReturn(commit(tdb, changes),
                DBCall("inner_commit", Some(changes), TRUE, "", None,
                       tdb.last.commitment, NoOut))

InitDB ==
    /\ tdb \in {New(state, StateRootOf(TrieOfKeys(state, DOMAIN state))) : state \in DBStates}
    /\ TrieInit /\ SparseIdle /\ OracleIdle /\ MainIdle /\ HintIdle /\ ProviderIdle /\ LateIdle({})

\* The fetchers of a call: the preimage fetcher and what the code fetcher
\* answers.
DBFetchers ==
    {[f |-> HonestFetcher, code |-> Some(Code)], [f |-> HonestFetcher, code |-> Some(<<>>)],
     [f |-> HonestFetcher, code |-> None], [f |-> FailingFetcher, code |-> Some(Code)]}

\* basic(address) on the DB, against a preimage fetcher f and a code fetcher
\* that answers code.
BasicOf(db, a, f, code) ==
    basic(db, a,
          load_account_from_trie(
              db, a, open(db.root_node, HashedPath(a), f),
              TrieAccountDecode(open(db.root_node, HashedPath(a), f).val.v), code))

\* storage(address, index) on the DB, against the same, b being what basic
\* returns.
StorageOf(db, a, i, f, b) ==
    storage(db, a, i, b,
            StorageOccupied(b.db, a, i,
                            open(StorageRootNode(b.db, a), HashedPath(i), f)))

BlockNumbers == {0, 1}

NextDB ==
    \/ \E a \in Asked, e \in DBFetchers : Basic(a, BasicOf(tdb, a, e.f, e.code))
    \/ \E a \in Asked, i \in Indexes, e \in DBFetchers :
          Storage(a, i, StorageOf(tdb, a, i, e.f, BasicOf(tdb, a, e.f, e.code)))
    \/ \E h \in {KECCAK_EMPTY, CodeHash} : CodeByHash(h)
    \/ \E n \in BlockNumbers, h \in {KECCAK_EMPTY, CodeHash} : InsertBlockHash(n, h)
    \/ \E n \in BlockNumbers : BlockHash(n)
    \/ StateRoot(blind(tdb.root_node))
    \/ \E changes \in Changesets : Commit(changes)
    \/ \E changes \in Changesets : InnerCommit(changes)

SpecDB == InitDB /\ [][NextDB]_vars

(***************************************************************************)
(* The boot loader of the client program: BootInfo::try_boot               *)
(* (bin/client/src/boot.rs) and the entry point that calls it              *)
(* (bin/client/src/main.rs).  The table is what the host serves on the     *)
(* preimage pipe.                                                          *)
(***************************************************************************)

\* The byte length of a u64.
U64_LEN == 8

\* enum LocalKeyIndex
LocalKeyIndex ==
    [L1Head |-> 1, StartingL2OutputRoot |-> 2, ClaimedL2OutputRoot |-> 3,
     ClaimedL2OutputRootBlockNumber |-> 4, L2ChainId |-> 5]

\* PreimageKey::new_local(index)
new_local(index) == [type |-> "Local", data |-> index]

\* OracleReader::get(key): the preimage the host serves for the key, or an error
\* when it serves none.
OracleReader_get(served, key) ==
    IF key \in DOMAIN served THEN [ok |-> TRUE, v |-> served[key]]
    ELSE [ok |-> FALSE, v |-> <<>>]

\* <[u8; n]>::try_from(slice): the slice when it has n bytes, an error otherwise.
try_into(slice, n) == IF Len(slice) = n THEN Some(slice) ELSE None

\* A field read that takes n zero bytes for a key that is not served.
BootFieldDefaulting(oracle, index, n) ==
    LET r == OracleReader_get(oracle, new_local(index)) IN
    IF ~r.ok THEN [ok |-> TRUE, err |-> "", v |-> Bytes([i \in 1..n |-> 0])]
    ELSE IF ~try_into(r.v, n).some THEN [ok |-> FALSE, err |-> "convert", v |-> <<>>]
    ELSE [ok |-> TRUE, err |-> "", v |-> try_into(r.v, n).v]

\* oracle.get(PreimageKey::new_local(index))?.as_slice().try_into().map_err(..)?
\* with the array of n bytes converted.
BootField(oracle, index, n) ==
    LET r == OracleReader_get(oracle, new_local(index)) IN
    IF ~r.ok THEN [ok |-> FALSE, err |-> "get", v |-> <<>>]
    ELSE IF ~try_into(r.v, n).some THEN [ok |-> FALSE, err |-> "convert", v |-> <<>>]
    ELSE [ok |-> TRUE, err |-> "", v |-> try_into(r.v, n).v]

\* u64::from_be_bytes
from_be_bytes(bytes) == BEValue(bytes)

BootErr(e) == [ok |-> FALSE, err |-> e, info |-> None]

\* BootInfo::try_boot: the five fields are read in order and the first failure
\* is returned.
try_boot(oracle) ==
    LET l1_head == BootField(oracle, LocalKeyIndex.L1Head, B256_LEN)
        starting_l2_output_root ==
            BootField(oracle, LocalKeyIndex.StartingL2OutputRoot, B256_LEN)
        claimed_l2_output_root ==
            BootField(oracle, LocalKeyIndex.ClaimedL2OutputRoot, B256_LEN)
        claimed_l2_output_root_block_number ==
            BootField(oracle, LocalKeyIndex.ClaimedL2OutputRootBlockNumber, U64_LEN)
        l2_chain_id == BootField(oracle, LocalKeyIndex.L2ChainId, U64_LEN)
    IN  IF ~l1_head.ok THEN BootErr(l1_head.err)
        ELSE IF ~starting_l2_output_root.ok THEN BootErr(starting_l2_output_root.err)
        ELSE IF ~claimed_l2_output_root.ok THEN BootErr(claimed_l2_output_root.err)
        ELSE IF ~claimed_l2_output_root_block_number.ok
             THEN BootErr(claimed_l2_output_root_block_number.err)
        ELSE IF ~l2_chain_id.ok THEN BootErr(l2_chain_id.err)
        ELSE [ok |-> TRUE, err |-> "",
              info |-> Some([l1_head |-> l1_head.v,
                             starting_l2_output_root |-> starting_l2_output_root.v,
                             claimed_l2_output_root |-> claimed_l2_output_root.v,
                             claimed_l2_output_root_block_number |->
                                 from_be_bytes(claimed_l2_output_root_block_number.v),
                             l2_chain_id |-> from_be_bytes(l2_chain_id.v)])]

\* fn boot(): try_boot(&oracle).expect(..) aborts on an error, and the program
\* exits with 0 otherwise.  The result of try_boot is kept as the boot of the run.
Boot ==
    /\ mpc = "start"
    /\ mrun.prog = "client"
    /\ LET r == try_boot(cache) IN
       IF r.ok THEN Goes("done", [mrun EXCEPT !.boot = r, !.status = "exit0"], verified)
       ELSE Goes("aborted", [mrun EXCEPT !.boot = r, !.status = "panic"], verified)

\* The eight bytes of n, the highest first.
u64_be(n) == Bytes(<<0, 0, 0, 0, 0, 0, n \div 256, n % 256>>)

\* The chain id that has a rollup config: OP mainnet.
OP_MAINNET_CHAIN_ID == 10

\* The integers the host serves.
BootInts == {OP_MAINNET_CHAIN_ID, 11, 100, 258}

\* What the host serves for local key k: nothing, 32 bytes that name the key,
\* the eight bytes of an integer, or nine bytes.
Served(k) ==
    {None, Some(Bytes([i \in 1..B256_LEN |-> 160 + k])),
     Some(Bytes([i \in 1..U64_LEN + 1 |-> k]))}
        \cup {Some(u64_be(n)) :
                n \in IF k = LocalKeyIndex.L2ChainId THEN {OP_MAINNET_CHAIN_ID, 11}
                      ELSE IF k = LocalKeyIndex.ClaimedL2OutputRootBlockNumber
                           THEN {100, 258}
                      ELSE {100}}

\* The tables the host serves: each local key of 1..5 with one of its answers.
BootTables ==
    {LET c == <<c1, c2, c3, c4, c5>> IN
     [key \in {new_local(k) : k \in {j \in 1..5 : c[j].some}} |-> c[key.data].v] :
        c1 \in Served(1), c2 \in Served(2), c3 \in Served(3), c4 \in Served(4),
        c5 \in Served(5)}

InitBoot ==
    /\ cache \in BootTables
    /\ verified = "none"
    /\ ocall = NoOracleCall
    /\ mpc = "start"
    /\ mrun = NewRun("client", None)
    /\ TrieInit /\ SparseIdle /\ HintIdle /\ ProviderIdle /\ LateIdle({}) /\ DBIdle

NextBoot == Boot

SpecBoot == InitBoot /\ [][NextBoot]_vars

(***************************************************************************)
(* SystemConfig::eip_1559_params (crates/protocol/genesis/src/system/      *)
(* config.rs).                                                             *)
(***************************************************************************)

\* RollupConfig::is_holocene_active: the fork has an activation time and the
\* timestamp has reached it.
is_holocene_active(rollup_config, timestamp) ==
    rollup_config.holocene_time.some /\ timestamp >= rollup_config.holocene_time.v

\* Option<u32>::None and Some(x), Option<u64> likewise
NoInt == [some |-> FALSE, v |-> 0]
SomeInt(x) == [some |-> TRUE, v |-> x]

\* Option<u32>::unwrap_or_default
unwrap_or_default(o) == IF o.some THEN o.v ELSE 0

\* B64::ZERO
B64_ZERO == Bytes(<<0, 0, 0, 0, 0, 0, 0, 0>>)

\* eip_1559_params that encodes the parameters in the first Holocene block too.
Eip1559ParamsOfEveryBlock(self, rollup_config, parent_timestamp, next_timestamp) ==
    IF is_holocene_active(rollup_config, next_timestamp)
    THEN Some(to_be_bytes(unwrap_or_default(self.eip1559_denominator))
                \o to_be_bytes(unwrap_or_default(self.eip1559_elasticity)))
    ELSE None

\* SystemConfig::eip_1559_params
eip_1559_params(self, rollup_config, parent_timestamp, next_timestamp) ==
    LET is_holocene == is_holocene_active(rollup_config, next_timestamp) IN
    IF is_holocene /\ ~is_holocene_active(rollup_config, parent_timestamp)
    THEN Some(B64_ZERO)
    ELSE IF is_holocene
         THEN Some(to_be_bytes(unwrap_or_default(self.eip1559_denominator))
                     \o to_be_bytes(unwrap_or_default(self.eip1559_elasticity)))
         ELSE None

\* The values of a parameter: unset, zero, one, and values of two and of four
\* significant bytes.
Eip1559Values == {NoInt, SomeInt(0), SomeInt(1), SomeInt(258), SomeInt(16777219)}

\* The timestamps of blocks and of the activation.
Timestamps == 0..2

\* sys_config.eip_1559_params(&rollup_config, parent_timestamp, next_timestamp)
Eip1559Params(parent_timestamp, next_timestamp) ==
    /\ sysc' = [sysc EXCEPT !.called = TRUE, !.parent_timestamp = parent_timestamp,
                            !.next_timestamp = next_timestamp,
                            !.out = eip_1559_params(sysc.self, sysc.rollup_config,
                                                    parent_timestamp, next_timestamp)]
    /\ KeepOthers({"sysc"})

InitSysConfig ==
    /\ sysc \in {[used |-> TRUE, called |-> FALSE,
                  self |-> [eip1559_denominator |-> d, eip1559_elasticity |-> e],
                  rollup_config |-> [holocene_time |-> h],
                  parent_timestamp |-> 0, next_timestamp |-> 0, out |-> None] :
                    d \in Eip1559Values, e \in Eip1559Values,
                    h \in {NoInt} \cup {SomeInt(t) : t \in Timestamps}}
    /\ TrieInit /\ SparseIdle /\ OracleIdle /\ MainIdle /\ HintIdle /\ DBIdle
    /\ pcall = [provider |-> "none"] /\ LateIdle({"sysc"})

NextSysConfig == \E parent_timestamp \in Timestamps, next_timestamp \in Timestamps :
                    Eip1559Params(parent_timestamp, next_timestamp)

SpecSysConfig == InitSysConfig /\ [][NextSysConfig]_vars

(***************************************************************************)
(* BatcherUpdate::try_from(&SystemConfigLog)                               *)
(* (crates/protocol/genesis/src/updates/batcher.rs).  A word of the log    *)
(* data is its 32 bytes as three big-endian parts: the 12 highest bytes,   *)
(* the 12 bytes after them and the 8 lowest bytes.                         *)
(***************************************************************************)

\* The byte length of a word of the data.
WORD_LEN == 32

\* The length the data of a batcher update has.
BATCHER_DATA_LEN == 96

\* The value of the pointer and of the length of a batcher update.
BATCHER_WORD == 32

\* log.data.data.len(): the words and the bytes after the last whole word.
DataLen(data) == WORD_LEN * Len(data.words) + data.extra

\* <sol!(uint64)>::abi_decode(word, true): the 24 highest bytes are zero, or the
\* decoding fails.
abi_decode_uint64(word) ==
    IF word.top12 = 0 /\ word.mid12 = 0 THEN SomeInt(word.low8) ELSE NoInt

\* <sol!(address)>::abi_decode(word, true): the 12 highest bytes are zero, or the
\* decoding fails; the address is the 20 lowest bytes.
abi_decode_address(word) ==
    IF word.top12 = 0 THEN [some |-> TRUE, v |-> <<word.mid12, word.low8>>]
    ELSE [some |-> FALSE, v |-> <<0, 0>>]

NoAddress == <<0, 0>>

BatcherErr(e, n) == [ok |-> FALSE, err |-> e, n |-> n, batch_submitter |-> NoAddress]

\* try_from that checks the length word before the pointer word.
TryFromLengthFirst(log) ==
    IF DataLen(log) # BATCHER_DATA_LEN THEN BatcherErr("InvalidDataLen", DataLen(log))
    ELSE IF ~abi_decode_uint64(log.words[2]).some THEN BatcherErr("LengthDecodingError", 0)
    ELSE IF abi_decode_uint64(log.words[2]).v # BATCHER_WORD
         THEN BatcherErr("InvalidDataLength", abi_decode_uint64(log.words[2]).v)
    ELSE IF ~abi_decode_uint64(log.words[1]).some THEN BatcherErr("PointerDecodingError", 0)
    ELSE IF abi_decode_uint64(log.words[1]).v # BATCHER_WORD
         THEN BatcherErr("InvalidDataPointer", abi_decode_uint64(log.words[1]).v)
    ELSE IF ~abi_decode_address(log.words[3]).some
         THEN BatcherErr("BatcherAddressDecodingError", 0)
    ELSE [ok |-> TRUE, err |-> "", n |-> 0,
          batch_submitter |-> abi_decode_address(log.words[3]).v]

\* <BatcherUpdate as TryFrom<&SystemConfigLog>>::try_from
try_from(log) ==
    IF DataLen(log) # BATCHER_DATA_LEN THEN BatcherErr("InvalidDataLen", DataLen(log))
    ELSE IF ~abi_decode_uint64(log.words[1]).some THEN BatcherErr("PointerDecodingError", 0)
    ELSE IF abi_decode_uint64(log.words[1]).v # BATCHER_WORD
         THEN BatcherErr("InvalidDataPointer", abi_decode_uint64(log.words[1]).v)
    ELSE IF ~abi_decode_uint64(log.words[2]).some THEN BatcherErr("LengthDecodingError", 0)
    ELSE IF abi_decode_uint64(log.words[2]).v # BATCHER_WORD
         THEN BatcherErr("InvalidDataLength", abi_decode_uint64(log.words[2]).v)
    ELSE IF ~abi_decode_address(log.words[3]).some
         THEN BatcherErr("BatcherAddressDecodingError", 0)
    ELSE [ok |-> TRUE, err |-> "", n |-> 0,
          batch_submitter |-> abi_decode_address(log.words[3]).v]

\* The words of the data: each part zero or not, the lowest 32 or not.
DataWords == [top12 : {0, 1}, mid12 : {0, 1}, low8 : {0, BATCHER_WORD, BATCHER_WORD + 1}]

\* The data of the logs: three words, or fewer or more words of zeros, or a byte
\* more or less than three words.
LogData ==
    {[words |-> <<w1, w2, w3>>, extra |-> 0] : w1 \in DataWords, w2 \in DataWords,
                                                w3 \in DataWords}
        \cup {[words |-> [i \in 1..n |-> [top12 |-> 0, mid12 |-> 0, low8 |-> BATCHER_WORD]],
               extra |-> x] : n \in 0..4, x \in {0, 1, WORD_LEN - 1}}

\* BatcherUpdate::try_from(&log)
TryFrom ==
    /\ ~bupd.called
    /\ bupd' = [bupd EXCEPT !.called = TRUE, !.out = try_from(bupd.log)]
    /\ KeepOthers({"bupd"})

InitBatcher ==
    /\ bupd \in {[used |-> TRUE, called |-> FALSE, log |-> d, out |-> BatcherErr("", 0)] :
                    d \in LogData}
    /\ TrieInit /\ SparseIdle /\ OracleIdle /\ MainIdle /\ HintIdle /\ DBIdle
    /\ pcall = [provider |-> "none"] /\ LateIdle({"bupd"})

NextBatcher == TryFrom

SpecBatcher == InitBatcher /\ [][NextBatcher]_vars

(***************************************************************************)
(* spawn_and_wait (crates/node/service/src/service/util.rs): the actors    *)
(* run as tasks of a JoinSet and the macro joins them one by one.          *)
(***************************************************************************)

\* The number of actors of a call.
NumActors == 3

Actors == 1..NumActors

\* $actor.start().await returns: an Err is logged, and the task ends without a
\* JoinError in either case.
ActorReturns(i, result) ==
    /\ actors.used /\ actors.task[i] = "running"
    /\ actors' = [actors EXCEPT !.task[i] = "ended", !.start[i] = result]
    /\ KeepOthers({"actors"})

\* start() of an actor returns Ok because it saw the token cancelled.
ActorCancelled(i) ==
    /\ actors.used /\ actors.task[i] = "running" /\ actors.cancelled
    /\ actors' = [actors EXCEPT !.task[i] = "ended", !.start[i] = "cancelled"]
    /\ KeepOthers({"actors"})

\* The task of an actor panics.
ActorPanics(i) ==
    /\ actors.used /\ actors.task[i] = "running"
    /\ actors' = [actors EXCEPT !.task[i] = "panicked", !.start[i] = "panic"]
    /\ KeepOthers({"actors"})

\* task_handles.join_next().await gives the result of a task that ended: the
\* token is cancelled when the result is a JoinError.
JoinNext(i) ==
    /\ actors.used /\ actors.pc = "joining"
    /\ actors.task[i] \in {"ended", "panicked"} /\ ~actors.joined[i]
    /\ actors' = [actors EXCEPT !.joined[i] = TRUE,
                                !.cancelled = @ \/ actors.task[i] = "panicked"]
    /\ KeepOthers({"actors"})

\* join_next() returns None: the set is empty and the macro finishes.
Finish ==
    /\ actors.used /\ actors.pc = "joining"
    /\ \A i \in Actors : actors.joined[i]
    /\ actors' = [actors EXCEPT !.pc = "done"]
    /\ KeepOthers({"actors"})

\* The tasks were spawned and none has ended.
InitActors ==
    /\ actors = [used |-> TRUE, pc |-> "joining", cancelled |-> FALSE,
                 task |-> [i \in Actors |-> "running"],
                 start |-> [i \in Actors |-> "running"],
                 joined |-> [i \in Actors |-> FALSE]]
    /\ TrieInit /\ SparseIdle /\ OracleIdle /\ MainIdle /\ HintIdle /\ DBIdle
    /\ pcall = [provider |-> "none"] /\ LateIdle({"actors"})

NextActors ==
    \/ \E i \in Actors, result \in {"ok", "err"} : ActorReturns(i, result)
    \/ \E i \in Actors : ActorCancelled(i)
    \/ \E i \in Actors : ActorPanics(i)
    \/ \E i \in Actors : JoinNext(i)
    \/ Finish

SpecActors == InitActors /\ [][NextActors]_vars

(***************************************************************************)
(* The dials of the GossipDriver (crates/node/p2p/src/gossip/driver.rs).   *)
(***************************************************************************)

\* The multiaddrs and the peer ids.
Multiaddrs == {"a", "b"}
PeerIds == {"p", "q"}

\* No dial of the swarm was made by the last call, or none was made because the
\* threshold was reached (refused) or the ENR or the peer id gave no address.
NoDial == [addr |-> "", started |-> FALSE, refused |-> FALSE, via |-> "none"]
Refused(addr) == [addr |-> addr, started |-> FALSE, refused |-> TRUE, via |-> "none"]
Dialed(addr, started) == [addr |-> addr, started |-> started, refused |-> FALSE, via |-> "none"]

\* dial_threshold_reached that lets an address be dialed once more.
DialThresholdOffByOne(self, addr) ==
    IF addr \notin DOMAIN self.dialed_peers THEN FALSE
    ELSE IF ~self.peer_redialing.some THEN TRUE
    ELSE IF self.peer_redialing.v = 0 THEN FALSE
    ELSE IF self.dialed_peers[addr] > self.peer_redialing.v THEN TRUE
    ELSE FALSE

\* GossipDriver::dial_threshold_reached
dial_threshold_reached(self, addr) ==
    IF addr \notin DOMAIN self.dialed_peers THEN FALSE
    ELSE IF ~self.peer_redialing.some THEN TRUE
    ELSE IF self.peer_redialing.v = 0 THEN FALSE
    ELSE IF self.dialed_peers[addr] >= self.peer_redialing.v THEN TRUE
    ELSE FALSE

\* GossipDriver::dial_multiaddr: started is whether self.swarm.dial(addr)
\* returned Ok.
dial_multiaddr(self, addr, started) ==
    IF dial_threshold_reached(self, addr) THEN [self EXCEPT !.last = Refused(addr)]
    ELSE IF started
         THEN [self EXCEPT !.last = Dialed(addr, TRUE),
                           !.dialed_peers =
                               Bind(self.dialed_peers, addr,
                                    (IF addr \in DOMAIN self.dialed_peers
                                     THEN self.dialed_peers[addr] ELSE 0) + 1)]
         ELSE [self EXCEPT !.last = Dialed(addr, FALSE)]

\* The driver dials as long as no count has reached MaxDials.
GossipRunning ==
    gossip.used /\ \A addr \in DOMAIN gossip.dialed_peers : gossip.dialed_peers[addr] < MaxDials

\* The call of the method named via returned and left the driver as self.
GossipReturn(via, self) ==
    /\ gossip' = [self EXCEPT !.last.via = via]
    /\ KeepOthers({"gossip"})

\* driver.dial_multiaddr(addr)
DialMultiaddr(addr, started) ==
    GossipRunning /\ GossipReturn("dial_multiaddr", dial_multiaddr(gossip, addr, started))

\* driver.dial(enr): an invalid ENR and an ENR without a tcp socket are not
\* dialed.
Dial(valid, multiaddr, started) ==
    /\ GossipRunning
    /\ IF ~valid \/ ~multiaddr.some THEN GossipReturn("dial", [gossip EXCEPT !.last = NoDial])
       ELSE GossipReturn("dial", dial_multiaddr(gossip, multiaddr.v, started))

\* driver.redial(peer_id)
Redial(peer_id, started) ==
    /\ GossipRunning
    /\ IF peer_id \in DOMAIN gossip.peerstore
       THEN GossipReturn("redial", dial_multiaddr(gossip, gossip.peerstore[peer_id], started))
       ELSE GossipReturn("redial", [gossip EXCEPT !.last = NoDial])

\* GossipDriver::new(swarm, addr, redialing, handler), with a peerstore of one
\* peer.
InitGossip ==
    /\ gossip \in {[used |-> TRUE, dialed_peers |-> <<>>, peerstore |-> ("p" :> "a"),
                    peer_redialing |-> redialing, last |-> NoDial] :
                      redialing \in {NoInt, SomeInt(0), SomeInt(1), SomeInt(2)}}
    /\ TrieInit /\ SparseIdle /\ OracleIdle /\ MainIdle /\ HintIdle /\ DBIdle
    /\ pcall = [provider |-> "none"] /\ LateIdle({"gossip"})

NextGossip ==
    \/ \E addr \in Multiaddrs, started \in BOOLEAN : DialMultiaddr(addr, started)
    \/ \E valid \in BOOLEAN, addr \in Multiaddrs, some \in BOOLEAN, started \in BOOLEAN :
            Dial(valid, [some |-> some, v |-> addr], started)
    \/ \E peer_id \in PeerIds, started \in BOOLEAN : Redial(peer_id, started)

SpecGossip == InitGossip /\ [][NextGossip]_vars

(***************************************************************************)
(* The CacheDB over a database (crates/mpt/src/db/cache.rs): commits and   *)
(* storage reads.  Beside the fields of the CacheDB the state keeps, for   *)
(* every address, how the account was last cleared by a commit ("created", *)
(* "selfdestructed" or "no") and the slots that commits wrote since.       *)
(***************************************************************************)

\* The addresses of the changesets and of the reads.
CacheAddresses == {0, 1}

\* The changesets: one account, marked touched or not, self-destructed or not,
\* created or not, with one slot written or none.
CacheChangesets ==
    {[address |-> a, touched |-> t,
      info |-> [nonce |-> 1, balance |-> 2, code_hash |-> KECCAK_EMPTY, code |-> None],
      selfdestructed |-> s, created |-> c, storage |-> st] :
        a \in CacheAddresses, t \in BOOLEAN, s \in BOOLEAN, c \in BOOLEAN,
        st \in {<<>>, (2 :> <<7>>)}}

CacheRunning == cdb.used /\ cdb.calls < MaxCacheCalls

\* The call left the fields of the CacheDB as db.
CacheReturn(db, cleared, written, call) ==
    /\ cdb' = [cdb EXCEPT !.accounts = db.accounts, !.contracts = db.contracts,
                          !.cleared = cleared, !.written = written,
                          !.last = call, !.calls = @ + 1]
    /\ KeepOthers({"cdb"})

\* db.commit(changes)
CacheCommit(changes) ==
    /\ CacheRunning
    /\ LET a == changes.address
           clears == changes.touched /\ (changes.selfdestructed \/ changes.created)
           writes == changes.touched /\ ~changes.selfdestructed
       IN  CacheReturn(commit(cdb, changes),
                       [cdb.cleared EXCEPT ![a] =
                           IF ~changes.touched THEN @
                           ELSE IF changes.selfdestructed THEN "selfdestructed"
                           ELSE IF changes.created THEN "created" ELSE @],
                       [cdb.written EXCEPT ![a] =
                           IF changes.touched /\ changes.selfdestructed THEN {}
                           ELSE (IF clears THEN {} ELSE @)
                                    \cup (IF writes THEN DOMAIN changes.storage ELSE {})],
                       [op |-> "commit", address |-> a, index |-> 0, ok |-> TRUE,
                        value |-> <<>>, fetches |-> 0])

\* db.storage(address, index), the database under the CacheDB answering ext.
CacheStorage(address, index, ext) ==
    /\ CacheRunning
    /\ LET r == CacheDB_storage(cdb, address, index, ext) IN
       CacheReturn(r.db, cdb.cleared, cdb.written,
                   [op |-> "storage", address |-> address, index |-> index, ok |-> r.ok,
                    value |-> r.value, fetches |-> r.fetches])

\* CacheDB::new(db)
InitCache ==
    /\ cdb = [used |-> TRUE, accounts |-> <<>>,
              contracts |-> [h \in {KECCAK_EMPTY} |-> <<>>],
              cleared |-> [a \in CacheAddresses |-> "no"],
              written |-> [a \in CacheAddresses |-> {}],
              last |-> [op |-> "none", address |-> 0, index |-> 0, ok |-> TRUE,
                        value |-> <<>>, fetches |-> 0],
              calls |-> 0]
    /\ TrieInit /\ SparseIdle /\ OracleIdle /\ MainIdle /\ HintIdle /\ DBIdle
    /\ pcall = [provider |-> "none"] /\ LateIdle({"cdb"})

NextCache ==
    \/ \E changes \in CacheChangesets : CacheCommit(changes)
    \/ \E address \in CacheAddresses, index \in Indexes, ext \in ExtAnswers :
            CacheStorage(address, index, ext)

SpecCache == InitCache /\ [][NextCache]_vars

(***************************************************************************)
(* DerivationPipeline::step and pop (crates/derive/src/pipeline/core.rs).  *)
(* The attributes stage is what it yields to next_attributes and to        *)
(* advance_origin; advances counts the calls of advance_origin.  Beside    *)
(* the fields of the pipeline the state keeps the items that step queued   *)
(* and the items that pop returned, in their order.                        *)
(***************************************************************************)

\* The L2 attributes the stage yields.
Attributes == {1, 2}

\* What next_attributes yields: attributes, end of source with the result of
\* the advance of the origin that follows it, or another error.
StageYields ==
    {[kind |-> "attributes", a |-> a, advance |-> TRUE] : a \in Attributes}
        \cup {[kind |-> "eof", a |-> 0, advance |-> ok] : ok \in BOOLEAN}
        \cup {[kind |-> "error", a |-> 0, advance |-> TRUE]}

\* A step that queues the attributes before the ones already prepared.
StepPushingFront(self, yield) ==
    CASE yield.kind = "attributes" ->
            [self EXCEPT !.prepared = <<yield.a>> \o @, !.ok = TRUE]
      [] yield.kind = "eof" ->
            [self EXCEPT !.advances = @ + 1, !.ok = yield.advance]
      [] OTHER -> [self EXCEPT !.ok = FALSE]

\* DerivationPipeline::step; ok is whether it returned Ok(()).
step(self, yield) ==
    CASE yield.kind = "attributes" ->
            [self EXCEPT !.prepared = Append(@, yield.a), !.ok = TRUE]
      [] yield.kind = "eof" ->
            [self EXCEPT !.advances = @ + 1, !.ok = yield.advance]
      [] OTHER -> [self EXCEPT !.ok = FALSE]

\* DerivationPipeline::pop: self.prepared.pop_front()
pop(self) ==
    IF self.prepared = <<>> THEN [self EXCEPT !.out = NoInt, !.ok = TRUE]
    ELSE [self EXCEPT !.out = SomeInt(Head(self.prepared)), !.prepared = Tail(@),
                      !.ok = TRUE]

PipelineRunning == dpipe.used /\ dpipe.calls < MaxPipelineCalls

\* pipeline.step().await
Step(yield) ==
    /\ PipelineRunning
    /\ dpipe' = [step(dpipe, yield) EXCEPT
                    !.op = "step", !.yield = yield, !.calls = @ + 1,
                    !.produced = IF yield.kind = "attributes" THEN Append(@, yield.a) ELSE @]
    /\ KeepOthers({"dpipe"})

\* pipeline.pop()
Pop ==
    /\ PipelineRunning
    /\ dpipe' = [pop(dpipe) EXCEPT
                    !.op = "pop", !.calls = @ + 1,
                    !.popped = IF pop(dpipe).out.some THEN Append(@, pop(dpipe).out.v) ELSE @]
    /\ KeepOthers({"dpipe"})

\* DerivationPipeline::new
InitPipeline ==
    /\ dpipe = [used |-> TRUE, prepared |-> <<>>, advances |-> 0, ok |-> TRUE,
                out |-> NoInt, op |-> "none",
                yield |-> [kind |-> "error", a |-> 0, advance |-> TRUE],
                produced |-> <<>>, popped |-> <<>>, calls |-> 0]
    /\ TrieInit /\ SparseIdle /\ OracleIdle /\ MainIdle /\ HintIdle /\ DBIdle
    /\ pcall = [provider |-> "none"] /\ LateIdle({"dpipe"})

NextPipeline ==
    \/ \E yield \in StageYields : Step(yield)
    \/ Pop

SpecPipeline == InitPipeline /\ [][NextPipeline]_vars

(***************************************************************************)
(* SpanBatch::check_batch                                                  *)
(* (crates/derive/src/types/batch/span_batch/batch.rs).  A hash of 32      *)
(* bytes is its 20 first bytes and the 12 bytes after them; a transaction  *)
(* is its bytes.  A validity carries the event the function logged before  *)
(* it returned.  The fetcher answers every number alike.  u64 arithmetic   *)
(* that leaves the range panics in a build with overflow checks and wraps  *)
(* in a build without them; a wrapped number is kept as the negative       *)
(* integer congruent to it.                                                *)
(***************************************************************************)

\* OpTxType::Deposit as u8
DEPOSIT_TX_TYPE == 126

Verdict(validity, why) == [validity |-> validity, why |-> why]

\* SpanBatch::timestamp
timestamp(self) == self.batches[1].timestamp

\* SpanBatch::starting_epoch_num
starting_epoch_num(self) == self.batches[1].epoch_num

\* SpanBatch::check_origin_hash: self.l1_origin_check == hash[..20]
check_origin_hash(self, hash) == self.l1_origin_check = hash.first20

\* SpanBatch::check_parent_hash: self.parent_check == hash[..20]
check_parent_hash(self, hash) == self.parent_check = hash.first20

\* RollupConfig::is_delta_active
is_delta_active(cfg, ts) == cfg.delta_time.some /\ ts >= cfg.delta_time.v

\* L2ChainProvider::l2_block_info_by_number
l2_block_info_by_number(fetcher, number) ==
    IF fetcher.block.ok
    THEN [ok |-> TRUE,
          block |-> [block_info |-> [number |-> number,
                                     parent_hash |-> fetcher.block.parent_hash],
                     l1_origin |-> [number |-> fetcher.block.l1_origin]]]
    ELSE [ok |-> FALSE]

\* L2ChainProvider::payload_by_number
payload_by_number(fetcher, number) == fetcher.payload

\* The number of deposits among the transactions of a safe block.
RECURSIVE deposit_count(_)
deposit_count(txs) ==
    IF txs = <<>> THEN 0
    ELSE (IF Head(txs)[1] = DEPOSIT_TX_TYPE THEN 1 ELSE 0) + deposit_count(Tail(txs))

\* The check of the transactions of one element (batch.rs:257-269).
RECURSIVE CheckTransactions(_)
CheckTransactions(txs) ==
    IF txs = <<>> THEN "ok"
    ELSE IF Head(txs) = <<>> THEN "transaction data must not be empty"
    ELSE IF Head(txs)[1] = DEPOSIT_TX_TYPE THEN "sequencers may not embed any deposits"
    ELSE CheckTransactions(Tail(txs))

\* The loop over the elements of the span (batch.rs:193-270); i counts from 1,
\* origin_index from 0 as in the source.
RECURSIVE CheckElements(_, _, _, _, _, _, _)
CheckElements(self, cfg, l1_blocks, l2_safe_head, i, origin_index, origin_advanced) ==
    IF i > Len(self.batches) THEN Verdict("Accept", "elements checked")
    ELSE IF self.batches[i].timestamp <= l2_safe_head.block_info.timestamp
    THEN CheckElements(self, cfg, l1_blocks, l2_safe_head, i + 1, origin_index, origin_advanced)
    ELSE
        LET batch == self.batches[i]
            found == {j \in origin_index..(Len(l1_blocks) - 1) :
                        l1_blocks[j + 1].number = batch.epoch_num}
            index == IF found = {} THEN origin_index
                     ELSE CHOOSE j \in found : \A k \in found : j <= k
            l1_origin == l1_blocks[index + 1]
            advanced == IF i > 1 THEN batch.epoch_num > self.batches[i - 1].epoch_num
                        ELSE origin_advanced
            drifted == batch.timestamp > l1_origin.timestamp + cfg.max_sequencer_drift
        IN  IF batch.timestamp < l1_origin.timestamp
            THEN Verdict("Drop", "block timestamp is less than L1 origin timestamp")
            ELSE IF drifted /\ batch.transactions # <<>>
            THEN Verdict("Drop", "batch exceeded sequencer time drift")
            ELSE IF drifted /\ ~advanced /\ index + 1 >= Len(l1_blocks)
            THEN Verdict("Undecided", "without the next L1 origin")
            ELSE IF drifted /\ ~advanced /\ batch.timestamp >= l1_blocks[index + 2].timestamp
            THEN Verdict("Drop", "exceeded sequencer time drift without adopting next origin")
            ELSE IF CheckTransactions(batch.transactions) # "ok"
            THEN Verdict("Drop", CheckTransactions(batch.transactions))
            ELSE CheckElements(self, cfg, l1_blocks, l2_safe_head, i + 1, index, advanced)

\* The loop over the overlapped blocks (batch.rs:274-315); i counts from 0.
RECURSIVE CheckOverlap(_, _, _, _, _)
CheckOverlap(self, l2_safe_head, fetcher, parent_num, i) ==
    IF i >= l2_safe_head.block_info.number - parent_num THEN Verdict("Accept", "accepted")
    ELSE
        LET safe_block_payload == payload_by_number(fetcher, parent_num + i + 1)
            safe_block_txs == safe_block_payload.transactions
        IN  IF ~safe_block_payload.ok THEN Verdict("Undecided", "failed to fetch payload")
            ELSE IF i + 1 > Len(self.batches) THEN Verdict("Panic", "index out of bounds")
            ELSE IF Len(safe_block_txs) - deposit_count(safe_block_txs)
                        # Len(self.batches[i + 1].transactions)
            THEN Verdict("Drop", "overlapped block's tx count does not match")
            ELSE IF \E j \in 1..Len(self.batches[i + 1].transactions) :
                        safe_block_txs[j + deposit_count(safe_block_txs)]
                            # self.batches[i + 1].transactions[j]
            THEN Verdict("Drop", "overlapped block's transaction does not match")
            ELSE IF ~safe_block_payload.l2_block_ref.some
            THEN Verdict("Drop", "failed to extract L2BlockRef")
            ELSE IF safe_block_payload.l2_block_ref.v # self.batches[i + 1].epoch_num
            THEN Verdict("Drop", "overlapped block's L1 origin number does not match")
            ELSE CheckOverlap(self, l2_safe_head, fetcher, parent_num, i + 1)

\* check_batch from the check of the parent hash on (batch.rs:141-318), with
\* the parent_block and the parent_num that are in scope there.
CheckFromParent(self, cfg, l1_blocks, l2_safe_head, inclusion_block, fetcher, parent_num, parent_block) ==
    LET end_epoch_num == self.batches[Len(self.batches)].epoch_num
        at_end == {j \in 1..Len(l1_blocks) : l1_blocks[j].number = end_epoch_num}
        first_at_end == CHOOSE j \in at_end : \A k \in at_end : j <= k
        elements == CheckElements(self, cfg, l1_blocks, l2_safe_head, 1, 0,
                        starting_epoch_num(self) = parent_block.l1_origin.number + 1)
    IN  IF ~check_parent_hash(self, parent_block.block_info.parent_hash)
        THEN Verdict("Drop", "parent block number mismatch")
        ELSE IF starting_epoch_num(self) + cfg.seq_window_size < inclusion_block.number
        THEN Verdict("Drop", "batch was included too late")
        ELSE IF starting_epoch_num(self) > parent_block.l1_origin.number + 1
        THEN Verdict("Drop", "batch is for future epoch too far ahead")
        ELSE IF at_end # {} /\ ~check_origin_hash(self, l1_blocks[first_at_end].hash)
        THEN Verdict("Drop", "batch is for different L1 chain")
        ELSE IF at_end = {}
        THEN Verdict("Undecided", "need more l1 blocks")
        ELSE IF starting_epoch_num(self) < parent_block.l1_origin.number
        THEN Verdict("Drop", "dropped batch, epoch is too old")
        ELSE IF elements.why # "elements checked" THEN elements
        ELSE IF timestamp(self) < l2_safe_head.block_info.timestamp + cfg.block_time
        THEN CheckOverlap(self, l2_safe_head, fetcher, parent_num, 0)
        ELSE Verdict("Accept", "accepted")

\* The number of the parent of an overlapping span (batch.rs:129-131).
ParentNum(self, cfg, l2_safe_head) ==
    l2_safe_head.block_info.number
        - (l2_safe_head.block_info.timestamp - timestamp(self)) \div cfg.block_time - 1

\* SpanBatch::check_batch.  The parent_block bound inside the block of the
\* overlap (batch.rs:132) goes out of scope at the end of that block: the
\* checks after it read the parent_block of batch.rs:118.
check_batch(self, cfg, l1_blocks, l2_safe_head, inclusion_block, fetcher, checked) ==
    IF l1_blocks = <<>> THEN Verdict("Undecided", "missing L1 block input")
    ELSE IF self.batches = <<>> THEN Verdict("Undecided", "empty span batch")
    ELSE
        LET epoch == l1_blocks[1]
            eager == starting_epoch_num(self) = epoch.number + 1
            batch_origin == IF eager THEN l1_blocks[2] ELSE epoch
            next_timestamp == l2_safe_head.block_info.timestamp + cfg.block_time
            parent_num == ParentNum(self, cfg, l2_safe_head)
            parent_block == l2_safe_head
        IN  IF eager /\ Len(l1_blocks) < 2
            THEN Verdict("Undecided", "eager batch wants to advance current epoch")
            ELSE IF ~is_delta_active(cfg, batch_origin.timestamp)
            THEN Verdict("Drop", "L1 origin before Delta hard fork")
            ELSE IF timestamp(self) > next_timestamp
            THEN Verdict("Future", "received out-of-order batch")
            ELSE IF self.batches[Len(self.batches)].timestamp < next_timestamp
            THEN Verdict("Drop", "span batch has no new blocks after safe head")
            ELSE IF timestamp(self) >= next_timestamp
            THEN CheckFromParent(self, cfg, l1_blocks, l2_safe_head, inclusion_block,
                                 fetcher, l2_safe_head.block_info.number, parent_block)
            ELSE IF timestamp(self) > l2_safe_head.block_info.timestamp
            THEN Verdict("Drop", "batch has misaligned timestamp, block time is too short")
            ELSE IF (l2_safe_head.block_info.timestamp - timestamp(self)) % cfg.block_time # 0
            THEN Verdict("Drop", "batch has misaligned timestamp, not overlapped exactly")
            ELSE IF parent_num < 0 /\ checked
            THEN Verdict("Panic", "attempt to subtract with overflow")
            ELSE IF ~l2_block_info_by_number(fetcher, parent_num).ok
            THEN Verdict("Undecided", "failed to fetch L2 block")
            ELSE CheckFromParent(self, cfg, l1_blocks, l2_safe_head, inclusion_block,
                                 fetcher, parent_num, parent_block)

\* Hashes: two that differ in their 20 first bytes.
HashA == [first20 |-> "a", last12 |-> "x"]
HashB == [first20 |-> "b", last12 |-> "x"]

\* Rollup configs, with the number of the inclusion block: a block time of 2,
\* or of 1 with a short sequencer drift, Delta not yet active, and a sequence
\* window that has expired.
SpanConfigs ==
    {[block_time |-> 2, seq_window_size |-> 1, max_sequencer_drift |-> 8,
      delta_time |-> SomeInt(0), inclusion |-> 1],
     [block_time |-> 1, seq_window_size |-> 1, max_sequencer_drift |-> 1,
      delta_time |-> SomeInt(0), inclusion |-> 1],
     [block_time |-> 2, seq_window_size |-> 1, max_sequencer_drift |-> 8,
      delta_time |-> NoInt, inclusion |-> 1],
     [block_time |-> 2, seq_window_size |-> 1, max_sequencer_drift |-> 8,
      delta_time |-> SomeInt(0), inclusion |-> 4]}

\* L2 safe heads at timestamp 4.
SafeHeads ==
    {[block_info |-> [number |-> n[1], timestamp |-> 4, parent_hash |-> n[2]],
      l1_origin |-> [number |-> n[3]]] :
        n \in {<<2, HashA, 1>>, <<2, HashA, 0>>, <<2, HashB, 0>>, <<0, HashA, 0>>}}

\* The L1 block of number n, of timestamp 4 * n.
L1Block(n, hash) == [number |-> n, hash |-> hash, timestamp |-> 4 * n]

L1BlockLists ==
    {<<>>, <<L1Block(0, HashA)>>, <<L1Block(0, HashA), L1Block(1, HashA)>>,
     <<L1Block(0, HashA), L1Block(1, HashB)>>, <<L1Block(1, HashA), L1Block(2, HashA)>>}

\* The transactions of an element: none, one, one without bytes, or one of the
\* deposit type.
SpanTransactions == {<<>>, <<<<2>>>>, <<<<>>>>, <<<<DEPOSIT_TX_TYPE>>>>}

\* How many elements a span has, and their transactions.
SpanShapes ==
    {[count |-> 1, txs |-> <<>>]} \cup {[count |-> 3, txs |-> txs] : txs \in SpanTransactions}

\* Spans of one element without transactions or of three elements with the
\* same transactions, from timestamp ts on, block_time apart, all of one epoch
\* but the third, which is of the next epoch.
Spans(block_time) ==
    {[parent_check |-> "a", l1_origin_check |-> "a",
      batches |-> [i \in 1..shape.count |->
                    [timestamp |-> ts + (i - 1) * block_time,
                     epoch_num |-> IF i = 3 THEN epoch + 1 ELSE epoch,
                     transactions |-> shape.txs]]] :
        ts \in 2..7, epoch \in 0..2, shape \in SpanShapes}
    \cup {[parent_check |-> "a", l1_origin_check |-> "a", batches |-> <<>>]}

\* What the fetcher answers.
SpanFetchers ==
    {[block |-> b, payload |-> p] :
        b \in {[ok |-> FALSE, parent_hash |-> HashA, l1_origin |-> 0]}
                \cup {[ok |-> TRUE, parent_hash |-> h, l1_origin |-> o] :
                        h \in {HashA, HashB}, o \in {0, 1}},
        p \in {[ok |-> FALSE, transactions |-> <<>>, l2_block_ref |-> NoInt],
               [ok |-> TRUE, transactions |-> <<<<DEPOSIT_TX_TYPE>>, <<2>>>>,
                l2_block_ref |-> SomeInt(0)],
               [ok |-> TRUE, transactions |-> <<<<DEPOSIT_TX_TYPE>>, <<3>>>>,
                l2_block_ref |-> SomeInt(1)],
               [ok |-> TRUE, transactions |-> <<<<DEPOSIT_TX_TYPE>>>>,
                l2_block_ref |-> NoInt]}}

\* The spans to check and the configs to check them under.
SpanCalls ==
    UNION {{[cfg |-> cfg, self |-> self] : self \in Spans(cfg.block_time)} :
                cfg \in SpanConfigs}

\* batch.check_batch(cfg, l1_blocks, l2_safe_head, inclusion_block, fetcher).await
CheckBatch ==
    /\ span.used /\ ~span.called
    /\ span' = [span EXCEPT
                    !.called = TRUE,
                    !.result = check_batch(span.self, span.cfg, span.l1_blocks,
                                           span.l2_safe_head,
                                           [number |-> span.cfg.inclusion],
                                           span.fetcher, span.checked)]
    /\ KeepOthers({"span"})

\* The inputs of the call; the build checks overflow or not, which shows for a
\* safe head of number 0 only.
InitSpan ==
    /\ \E call \in SpanCalls, l1_blocks \in L1BlockLists, l2_safe_head \in SafeHeads,
          fetcher \in SpanFetchers, checked \in BOOLEAN :
            /\ checked => l2_safe_head.block_info.number = 0
            /\ span = [used |-> TRUE, called |-> FALSE, self |-> call.self,
                       cfg |-> call.cfg, l1_blocks |-> l1_blocks,
                       l2_safe_head |-> l2_safe_head, fetcher |-> fetcher,
                       checked |-> checked, result |-> Verdict("none", "not called")]
    /\ TrieInit /\ SparseIdle /\ OracleIdle /\ MainIdle /\ HintIdle /\ DBIdle
    /\ pcall = [provider |-> "none"] /\ LateIdle({"span"})

NextSpan == CheckBatch

SpecSpan == InitSpan /\ [][NextSpan]_vars

(***************************************************************************)
(* The interop program (bin/client/src/interop/mod.rs).  BootInfo::load,   *)
(* sub_transition and consolidate_dependencies are what they return.       *)
(***************************************************************************)

\* kona_proof_interop::TRANSITION_STATE_MAX_STEPS
TRANSITION_STATE_MAX_STEPS == 1023

\* FaultProofProgramError::InvalidClaim(expected, actual)
InvalidClaim(expected, actual) ==
    [ok |-> FALSE, err |-> "InvalidClaim", expected |-> expected, actual |-> actual,
     ran |-> "none"]

\* What run returns after it ran a sub-problem: what the sub-problem returned.
Ran(sub_problem, returned) ==
    [ok |-> returned, err |-> IF returned THEN "none" ELSE sub_problem,
     expected |-> 0, actual |-> 0, ran |-> sub_problem]

\* A run that short-circuits where the super root is strictly after the claim.
RunStrictlyAfter(loaded, returned) ==
    IF ~loaded.ok
    THEN [ok |-> loaded.err = "InvalidToInvalid",
          err |-> IF loaded.err = "InvalidToInvalid" THEN "none" ELSE loaded.err,
          expected |-> 0, actual |-> 0, ran |-> "none"]
    ELSE LET boot == loaded.boot IN
        IF boot.agreed_pre_state.kind = "SuperRoot"
        THEN IF boot.agreed_pre_state.timestamp > boot.claimed_l2_timestamp
             THEN IF boot.agreed_pre_state_commitment = boot.claimed_post_state
                  THEN [ok |-> TRUE, err |-> "none", expected |-> 0, actual |-> 0,
                        ran |-> "none"]
                  ELSE InvalidClaim(boot.agreed_pre_state_commitment,
                                    boot.claimed_post_state)
             ELSE Ran("sub_transition", returned)
        ELSE IF boot.agreed_pre_state.timestamp >= boot.claimed_l2_timestamp
        THEN InvalidClaim(boot.agreed_pre_state_commitment, boot.claimed_post_state)
        ELSE IF boot.agreed_pre_state.step < TRANSITION_STATE_MAX_STEPS
        THEN Ran("sub_transition", returned)
        ELSE Ran("consolidate_dependencies", returned)

\* run: loaded is what BootInfo::load returned, returned whether the
\* sub-problem that runs returns Ok.  The timestamp of a transition state is
\* transition_state.pre_state.timestamp.
run(loaded, returned) ==
    IF ~loaded.ok
    THEN [ok |-> loaded.err = "InvalidToInvalid",
          err |-> IF loaded.err = "InvalidToInvalid" THEN "none" ELSE loaded.err,
          expected |-> 0, actual |-> 0, ran |-> "none"]
    ELSE LET boot == loaded.boot IN
        IF boot.agreed_pre_state.kind = "SuperRoot"
        THEN IF boot.agreed_pre_state.timestamp >= boot.claimed_l2_timestamp
             THEN IF boot.agreed_pre_state_commitment = boot.claimed_post_state
                  THEN [ok |-> TRUE, err |-> "none", expected |-> 0, actual |-> 0,
                        ran |-> "none"]
                  ELSE InvalidClaim(boot.agreed_pre_state_commitment,
                                    boot.claimed_post_state)
             ELSE Ran("sub_transition", returned)
        ELSE IF boot.agreed_pre_state.timestamp >= boot.claimed_l2_timestamp
        THEN InvalidClaim(boot.agreed_pre_state_commitment, boot.claimed_post_state)
        ELSE IF boot.agreed_pre_state.step < TRANSITION_STATE_MAX_STEPS
        THEN Ran("sub_transition", returned)
        ELSE Ran("consolidate_dependencies", returned)

\* The agreed pre-states: super roots, and transition states whose step is at,
\* beside or far from the maximum.
PreStates ==
    {[kind |-> "SuperRoot", timestamp |-> t, step |-> 0] : t \in Timestamps}
        \cup {[kind |-> "TransitionState", timestamp |-> t, step |-> s] :
                t \in Timestamps,
                s \in {0, TRANSITION_STATE_MAX_STEPS - 1, TRANSITION_STATE_MAX_STEPS,
                       TRANSITION_STATE_MAX_STEPS + 1}}

\* What BootInfo::load returns.
NoBootInfo ==
    [agreed_pre_state |-> [kind |-> "none", timestamp |-> 0, step |-> 0],
     claimed_l2_timestamp |-> 0, agreed_pre_state_commitment |-> 0,
     claimed_post_state |-> 0]

Loads ==
    {[ok |-> FALSE, err |-> e, boot |-> NoBootInfo] : e \in {"InvalidToInvalid", "Bootstrap"}}
        \cup {[ok |-> TRUE, err |-> "none",
               boot |-> [agreed_pre_state |-> p, claimed_l2_timestamp |-> t,
                         agreed_pre_state_commitment |-> c, claimed_post_state |-> d]] :
                p \in PreStates, t \in Timestamps, c \in {1, 2}, d \in {1, 2}}

\* run(oracle_client, hint_client, handle_register).await
Run(loaded, returned) ==
    /\ interop.used /\ ~interop.ran
    /\ interop' = [used |-> TRUE, ran |-> TRUE, loaded |-> loaded, returned |-> returned,
                   result |-> run(loaded, returned)]
    /\ KeepOthers({"interop"})

InitInterop ==
    /\ interop = [used |-> TRUE, ran |-> FALSE]
    /\ TrieInit /\ SparseIdle /\ OracleIdle /\ MainIdle /\ HintIdle /\ DBIdle
    /\ pcall = [provider |-> "none"] /\ LateIdle({"interop"})

NextInterop == \E loaded \in Loads, returned \in BOOLEAN : Run(loaded, returned)

SpecInterop == InitInterop /\ [][NextInterop]_vars

(***************************************************************************)
(* FileDescriptor, its Clone and its conversion to usize                   *)
(* (crates/common/src/types.rs).  With the feature std the enum has the    *)
(* variant Wildcard(File) and the Clone written at types.rs:28-36; without *)
(* it Clone is derived.  A File is the open file it refers to and its raw  *)
(* descriptor.  A call of clone is a frame on the stack; a build that      *)
(* turns the call in tail position into a jump keeps one frame.            *)
(***************************************************************************)

FixedVariants ==
    {"StdIn", "StdOut", "StdErr", "HintRead", "HintWrite", "PreimageRead", "PreimageWrite"}

\* Raw descriptors of the files behind a Wildcard.
RawFds == {7, 8}

NoFile == [file |-> "none", raw_fd |-> 0]

Fixed(variant) == [variant |-> variant, file |-> NoFile]

Wildcard(file) == [variant |-> "Wildcard", file |-> file]

\* The descriptors of a build: Wildcard exists with the feature std only.
FileDescriptors(std) ==
    {Fixed(v) : v \in FixedVariants}
        \cup IF std THEN {Wildcard([file |-> "f", raw_fd |-> n]) : n \in RawFds} ELSE {}

\* impl From<FileDescriptor> for usize
usize_from(fd) ==
    CASE fd.variant = "StdIn" -> 0
      [] fd.variant = "StdOut" -> 1
      [] fd.variant = "StdErr" -> 2
      [] fd.variant = "HintRead" -> 3
      [] fd.variant = "HintWrite" -> 4
      [] fd.variant = "PreimageRead" -> 5
      [] fd.variant = "PreimageWrite" -> 6
      [] OTHER -> fd.file.raw_fd

\* let copy = fd.clone(): the first frame of clone.
CloneCall ==
    /\ fdc.used /\ fdc.pc = "idle"
    /\ fdc' = [fdc EXCEPT !.pc = "clone", !.frames = 1]
    /\ KeepOthers({"fdc"})

\* The derived Clone of a build without std: the same variant.
DerivedClone ==
    /\ fdc.used /\ fdc.pc = "clone" /\ ~fdc.std
    /\ fdc' = [fdc EXCEPT !.pc = "returned", !.frames = 0, !.out = fdc.fd]
    /\ KeepOthers({"fdc"})

\* The arm FileDescriptor::Wildcard(file) of clone (types.rs:32):
\* file.try_clone() gives the same file under another raw descriptor, or
\* fails and unwrap panics.
CloneWildcard(duplicated, raw_fd) ==
    /\ fdc.used /\ fdc.pc = "clone" /\ fdc.std /\ fdc.fd.variant = "Wildcard"
    /\ raw_fd # fdc.fd.file.raw_fd
    /\ fdc' = IF duplicated
              THEN [fdc EXCEPT !.pc = "returned", !.frames = 0,
                               !.out = Wildcard([fdc.fd.file EXCEPT !.raw_fd = raw_fd])]
              ELSE [fdc EXCEPT !.pc = "panicked", !.frames = 0]
    /\ KeepOthers({"fdc"})

\* The arm _ of clone (types.rs:33): self.clone(), the same function on the
\* same value.  It pushes a frame, or jumps to the start of the function in a
\* build that made the call a jump; the stack ends at MaxFrames.
CloneFixed ==
    /\ fdc.used /\ fdc.pc = "clone" /\ fdc.std /\ fdc.fd.variant # "Wildcard"
    /\ fdc' = IF fdc.jumps THEN fdc
              ELSE IF fdc.frames < MaxFrames THEN [fdc EXCEPT !.frames = @ + 1]
              ELSE [fdc EXCEPT !.pc = "stack overflow"]
    /\ KeepOthers({"fdc"})

\* usize::from of the descriptor and of its clone.
UsizeFrom ==
    /\ fdc.used /\ fdc.pc = "returned"
    /\ fdc' = [fdc EXCEPT !.pc = "converted", !.number = usize_from(fdc.fd),
                          !.number_of_clone = usize_from(fdc.out)]
    /\ KeepOthers({"fdc"})

InitFd ==
    /\ \E std \in BOOLEAN, jumps \in BOOLEAN :
        \E fd \in FileDescriptors(std) :
            fdc = [used |-> TRUE, std |-> std, jumps |-> jumps, fd |-> fd, pc |-> "idle",
                   frames |-> 0, out |-> Fixed("none"), number |-> 0,
                   number_of_clone |-> 0]
    /\ TrieInit /\ SparseIdle /\ OracleIdle /\ MainIdle /\ HintIdle /\ DBIdle
    /\ pcall = [provider |-> "none"] /\ LateIdle({"fdc"})

NextFd ==
    \/ CloneCall
    \/ DerivedClone
    \/ \E duplicated \in BOOLEAN, raw_fd \in RawFds : CloneWildcard(duplicated, raw_fd)
    \/ CloneFixed
    \/ UsizeFrom

\* The program goes on as long as it has a step to take.
SpecFd == InitFd /\ [][NextFd]_vars /\ WF_vars(NextFd)

(***************************************************************************)
(* Claims on the trie built by inserts and deletes.                        *)
(***************************************************************************)
\* What the differential tests compare with the reference: the commitment of the
\* blinded root, or, when blind() left the root open, the digest of its encoding.
RootCommitment ==
    LET b == blind(root) IN
    IF blinded_commitment(b).some THEN blinded_commitment(b).v ELSE keccak256(encode(b))

C9_InsertThenOpen ==
    (last.op = "insert" /\ last.ok) =>
        LET r == open(root, last.path, FailingFetcher) IN
        r.ok /\ r.val = Some(last.value)

\* An insert has overwritten the value of a bound path with another value.
C9_Witness ==
    /\ last.op = "insert" /\ last.ok
    /\ last.prior.some /\ last.prior.v # last.value
    /\ Cardinality(DOMAIN kv) >= 2

\* C10: after insert(P, V) and then delete(P) both returned Ok, open(P) returns
\* Ok(None).
C10_InsertDeleteThenOpen ==
    (last.op = "delete" /\ last.ok /\ last.afterInsert) =>
        LET r == open(root, last.path, FailingFetcher) IN
        r.ok /\ r.val = None

\* insert(P, V) then delete(P) have returned Ok on a trie that holds other keys.
C10_Witness ==
    /\ last.op = "delete" /\ last.ok /\ last.afterInsert
    /\ Cardinality(DOMAIN kv) >= 2

\* C12: after a delete that returned Ok no Branch of the trie has fewer than two
\* children that are not Empty, and every bound path still opens to its value; a
\* delete that empties one of the two slots of the root Branch puts in its place
\* a Leaf when the other child was a Leaf, an Extension when it was an Extension
\* or a Branch, with the slot's nibble put before the child's path.
C12_NoSingleChildBranch ==
    /\ [](LET RECURSIVE BranchesFull(_)
              BranchesFull(n) ==
                  CASE n.type = "Branch" ->
                          /\ Cardinality(NonEmptyChildren(n.stack)) >= 2
                          /\ \A i \in 1..Len(n.stack) : BranchesFull(n.stack[i])
                    [] n.type = "Extension" -> BranchesFull(n.node)
                    [] OTHER -> TRUE
          IN  (last.op = "delete" /\ last.ok) =>
                  /\ BranchesFull(root)
                  /\ \A p \in DOMAIN kv : open(root, p, FailingFetcher).val = Some(kv[p]))
    /\ [][LET Collapsed(i, c) ==
                  CASE c.type = "Leaf" -> Leaf(<<i>> \o c.prefix, c.value)
                    [] c.type = "Extension" -> Extension(<<i>> \o c.prefix, c.node)
                    [] c.type = "Branch" -> Extension(<<i>>, c)
          IN  (/\ last'.op = "delete" /\ last'.ok
               /\ root.type = "Branch"
               /\ Cardinality(NonEmptyChildren(root.stack)) = 2
               /\ root.stack[last'.path[1] + 1].type = "Leaf")
              => \E i \in NonEmptyChildren(root.stack) \ {last'.path[1]} :
                    root' = Collapsed(i, root.stack[i + 1])]_vars

\* A delete has emptied one of the two slots of the root Branch, and the child in
\* the other slot was a Branch: the root is now an Extension of one nibble.
C12_Witness ==
    /\ last.op = "delete" /\ last.ok
    /\ root.type = "Extension" /\ Len(root.prefix) = 1 /\ root.node.type = "Branch"
    /\ Cardinality(DOMAIN kv) = 2

\* C13: after a delete that returned Ok no Extension of the trie has an
\* Extension, a Leaf or an Empty node as its child; a delete that goes through a
\* root Extension leaves the Extension with the two paths joined when the child
\* became an Extension, the Leaf with the two paths joined when it became a Leaf;
\* and an Extension over Empty collapses to Empty.
C13_NoCollapsibleExtension ==
    /\ [](LET RECURSIVE ExtensionsFull(_)
              ExtensionsFull(n) ==
                  CASE n.type = "Extension" ->
                          /\ n.node.type \notin {"Extension", "Leaf", "Empty"}
                          /\ ExtensionsFull(n.node)
                    [] n.type = "Branch" ->
                          \A i \in 1..Len(n.stack) : ExtensionsFull(n.stack[i])
                    [] OTHER -> TRUE
          IN  /\ (last.op = "delete" /\ last.ok) => ExtensionsFull(root)
              /\ \A p \in Paths :
                    collapse_if_possible(Extension(p, Empty), FailingFetcher,
                                         [ok |-> TRUE]).node = Empty)
    /\ [][LET Joined(prefix, c) ==
                  CASE c.type = "Extension" -> Extension(prefix \o c.prefix, c.node)
                    [] c.type = "Leaf" -> Leaf(prefix \o c.prefix, c.value)
                    [] c.type = "Empty" -> Empty
                    [] OTHER -> Extension(prefix, c)
          IN  (last'.op = "delete" /\ last'.ok /\ root.type = "Extension")
              => root' = Joined(root.prefix,
                                delete(root.node, SliceFrom(last'.path, Len(root.prefix)),
                                       FailingFetcher, [ok |-> TRUE]).node)]_vars

\* A delete under a root Extension of one nibble has left a Branch with one
\* child, a Branch: the root is now one Extension of two nibbles.
C13_Witness ==
    /\ last.op = "delete" /\ last.ok
    /\ root.type = "Extension" /\ Len(root.prefix) = 2 /\ root.node.type = "Branch"
    /\ last.path[1] = root.prefix[1] /\ last.path[2] # root.prefix[2]

\* C15: no trie reached from Empty by inserts and deletes holds an Extension
\* whose path is empty; an insert that leaves a root Extension at the last nibble
\* of its path puts the child of the Extension itself in the slot of that nibble
\* of the new Branch.
C15_NoEmptyExtension ==
    /\ [](LET RECURSIVE PathsFull(_)
              PathsFull(n) ==
                  CASE n.type = "Extension" -> n.prefix # <<>> /\ PathsFull(n.node)
                    [] n.type = "Branch" ->
                          \A i \in 1..Len(n.stack) : PathsFull(n.stack[i])
                    [] OTHER -> TRUE
          IN  PathsFull(root))
    /\ [][LET shared == Len(root.prefix) - 1
              branch == IF shared = 0 THEN root' ELSE root'.node
          IN  (/\ last'.op = "insert" /\ last'.ok
               /\ root.type = "Extension"
               /\ common_prefix_length(last'.path, root.prefix) = shared)
              => /\ branch.type = "Branch"
                 /\ branch.stack[root.prefix[shared + 1] + 1] = root.node]_vars

\* An insert has split a root Extension of two nibbles at its second nibble:
\* the Branch that was its child sits in a slot of the new Branch, beside the
\* new Leaf.
C15_Witness ==
    /\ last.op = "insert" /\ last.ok /\ ~last.prior.some
    /\ root.type = "Extension" /\ Len(root.prefix) = 1 /\ root.node.type = "Branch"
    /\ root.node.stack[last.path[2] + 1].type = "Leaf"
    /\ \E i \in 1..Len(root.node.stack) : root.node.stack[i].type = "Branch"

\* C16: on a path that is not bound in the trie open returns Ok(None) and
\* delete returns the key-not-found error.
C16_UnboundPathNotFound ==
    (last.op \in {"open", "delete"} /\ ~last.prior.some) =>
        IF last.op = "open" THEN last.ok /\ last.val = None
        ELSE ~last.ok /\ last.err = "KeyNotFound"

C18_DecodeEncodeIsNode ==
    [][last'.op = "decode" => last'.ok /\ root' = root]_vars

\* C18 amended, for every node of a trie that inserts built and of what blind()
\* made of it: decoding the encoding of a node succeeds and gives the node with
\* each child of an Extension or of a Branch as blind() leaves it, Blinded when
\* the child encodes in 32 bytes or more; it gives the node itself when no child
\* is that long and open.
C18_DecodeEncodeBlindsChildren ==
    /\ [](LET Closed(n) ==
                  CASE n.type = "Extension" -> Extension(n.prefix, blind(n.node))
                    [] n.type = "Branch" ->
                          Branch([i \in 1..Len(n.stack) |-> blind(n.stack[i])])
                    [] OTHER -> n
              RECURSIVE Holds(_)
              Holds(n) ==
                  /\ decode(encode(n)) = [ok |-> TRUE, node |-> Closed(n)]
                  /\ CASE n.type = "Extension" -> Holds(n.node)
                       [] n.type = "Branch" -> \A i \in 1..Len(n.stack) : Holds(n.stack[i])
                       [] OTHER -> TRUE
          IN  last.op \in {"none", "blind", "decode"} => Holds(root))
    /\ [][last'.op = "decode" =>
              /\ last'.ok
              /\ root' = CASE root.type = "Extension" ->
                                Extension(root.prefix, blind(root.node))
                            [] root.type = "Branch" ->
                                Branch([i \in 1..Len(root.stack) |-> blind(root.stack[i])])
                            [] OTHER -> root]_vars

\* The encoding of a root Branch was decoded again: one child has come back
\* Blinded and another verbatim, a Leaf.
C18_Witness ==
    /\ last.op = "decode" /\ last.ok
    /\ root.type = "Branch"
    /\ \E i \in 1..Len(root.stack) : root.stack[i].type = "Blinded"
    /\ \E i \in 1..Len(root.stack) : root.stack[i].type = "Leaf"

(***************************************************************************)
(* Claims on the trie opened from a commitment.                            *)
(***************************************************************************)
\* C2: every node that an operation put in the place of a Blinded node hashes to
\* the commitment of that Blinded node.
C2_InstalledNodeHashesToCommitment ==
    \A i \in DOMAIN slog :
        (slog[i].ev = "fetch" /\ slog[i].ok) =>
            keccak256(encode(slog[i].node)) = slog[i].c

C14_HintBeforeFetch ==
    /\ [](scall.op = "delete" =>
            \A i \in DOMAIN slog :
                slog[i].ev = "hint" =>
                    IF slog[i].ok
                    THEN /\ i < Len(slog)
                         /\ slog[i + 1].ev = "fetch" /\ slog[i + 1].c = slog[i].c
                    ELSE i = Len(slog) /\ ~scall.ok)
    /\ [][LET Collapsed(i, c) ==
                  CASE c.type = "Leaf" -> Leaf(<<i>> \o c.prefix, c.value)
                    [] c.type = "Extension" -> Extension(<<i>> \o c.prefix, c.node)
                    [] c.type = "Branch" -> Extension(<<i>>, c)
              mine == scall'.path[1]
          IN  (/\ scall'.op = "delete"
               /\ snode.type = "Branch"
               /\ Cardinality(NonEmptyChildren(snode.stack)) = 2
               /\ snode.stack[mine + 1] \in
                      {Leaf(SliceFrom(scall'.path, BRANCH_NODE_NIBBLES), v) : v \in Values})
              => \A i \in NonEmptyChildren(snode.stack) \ {mine} :
                    snode.stack[i + 1].type = "Blinded" =>
                        /\ Len(slog') >= 1
                        /\ slog'[1].ev = "hint" /\ slog'[1].c = snode.stack[i + 1].commitment
                        /\ ~slog'[1].ok => Len(slog') = 1 /\ ~scall'.ok
                        /\ slog'[1].ok =>
                              /\ Len(slog') = 2
                              /\ slog'[2].ev = "fetch"
                              /\ slog'[2].c = snode.stack[i + 1].commitment
                              /\ scall'.ok = slog'[2].ok
                              /\ slog'[2].ok => snode' = Collapsed(i, slog'[2].node)]_vars

\* A delete has left a Branch whose only child was Blinded: the hint was sent,
\* then the fetcher served the node committed to, and the Branch became a Leaf.
C14_Witness ==
    /\ scall.op = "delete" /\ scall.ok
    /\ Len(slog) >= 2
    /\ slog[Len(slog) - 1].ev = "hint" /\ slog[Len(slog) - 1].ok
    /\ slog[Len(slog)].ev = "fetch" /\ slog[Len(slog)].ok
    /\ keccak256(encode(slog[Len(slog)].node)) = slog[Len(slog)].c
    /\ snode.type = "Leaf" /\ Len(snode.prefix) = SparsePathLen

\* C33: when insert or delete returns an error, every path reads through open
\* as it did before the call and the root commitment is the one before the call.
\* Stated of the calls whose fetcher served, for every commitment it answered, a
\* node hashing to that commitment.
C33_ErrorLeavesTrie ==
    [][LET Value(n, p) == open(n, p, HonestFetcher).val
           Commitment(n) ==
               IF blinded_commitment(blind(n)).some THEN blinded_commitment(blind(n)).v
               ELSE keccak256(encode(blind(n)))
       IN  (/\ scall'.op \in {"insert", "delete"}
            /\ sops' = sops + 1
            /\ ~scall'.ok /\ scall'.err # "panic"
            /\ \A i \in DOMAIN slog' :
                  (slog'[i].ev = "fetch" /\ slog'[i].ok)
                      => keccak256(encode(slog'[i].node)) = slog'[i].c)
           => /\ \A p \in SparsePaths : Value(snode', p) = Value(snode, p)
              /\ Commitment(snode') = Commitment(snode)]_vars

(***************************************************************************)
(* Claims on the verify pass.                                              *)
(***************************************************************************)
\* C3: verify returns success only on a table whose every entry satisfies the
\* constraint of its key type (the "only if" half of the claim).  Of the
\* constraint of a Blob or Precompile entry only what the table alone decides is
\* stated: its companion Keccak256 entry is in the table.
C3_VerifyOkOnlyIfConstraints ==
    LET Constraint(key) ==
            CASE key.type = "Local" -> TRUE
              [] key.type = "Keccak256" ->
                    key.data = B256Bytes(keccak256(cache[key]))[2]
              [] key.type = "Sha256" ->
                    key.data = B256Bytes(sha256(cache[key]))[2]
              [] key.type = "GlobalGeneric" -> FALSE
              [] key.type \in {"Blob", "Precompile"} ->
                    [type |-> "Keccak256", data |-> key.data] \in DOMAIN cache
    IN  verified = "ok" => \A key \in DOMAIN cache : Constraint(key)

\* C29: verify fails when the table holds a Precompile-keyed entry whose
\* companion Keccak256-keyed entry, of the same commitment bytes, is absent.
C29_OrphanPrecompileFailsVerify ==
    (/\ verified # "none"
     /\ \E key \in DOMAIN cache :
            /\ key.type = "Precompile"
            /\ PreimageKey(KeyBytes(key), "Keccak256") \notin DOMAIN cache)
    => verified = "panic"

C8_VerifiedBeforeUse ==
    (mrun.prog \in {"zk", "sp1-program"} /\ mrun.used) => verified = "ok"

(***************************************************************************)
(* Claims on the pipes and on the providers.                               *)
(***************************************************************************)
\* C5: in a fetch that writes a hint, the key request goes on the oracle pipe only
\* in a step taken after the hint write returned Ok, having read the
\* acknowledgement of the host, and a fetch whose hint write failed sent no key
\* request.
C5_KeyRequestAfterAck ==
    /\ [][(Len(opipe') > Len(opipe) /\ fetch.kind # "trie_node_preimage") =>
            (fetch.hinted = "ok" /\ fetch.acks = 1 /\ hpipe.toHost = <<>>)]_vars
    /\ [](fetch.hinted = "err" => ~fetch.sent)

\* The key request of a header_by_hash went out after its hint was acknowledged.
C5_Witness ==
    /\ fetch.kind = "header_by_hash"
    /\ fetch.sent
    /\ fetch.acks = 1

\* C6: what a hint write put on the hint pipe is the 4-byte big-endian length of
\* the hint followed by the bytes of the hint; the write has not returned while
\* it waits for the acknowledgement, it returned Ok only having read exactly one
\* acknowledgement byte, of whatever value, and it returned an error having read
\* none.
C6_HintWriteWireFormat ==
    /\ fetch.written # <<>> =>
          /\ Len(fetch.written) >= 4
          /\ SubSeq(fetch.written, 5, Len(fetch.written)) = HintOf(fetch.kind, fetch.hash)
          /\ BEValue(SubSeq(fetch.written, 1, 4))
                = EncLen(SubSeq(fetch.written, 5, Len(fetch.written)))
    /\ fetch.pc = "ack" => fetch.hinted = "none"
    /\ fetch.hinted = "ok" => (fetch.written # <<>> /\ fetch.acks = 1 /\ fetch.ack.some)
    /\ fetch.hinted = "err" => (fetch.acks = 0 /\ fetch.pc = "failed")

\* A hint write returned Ok on an acknowledgement byte of value 0.
C6_Witness ==
    /\ fetch.hinted = "ok"
    /\ fetch.ack = Some(0)
    /\ fetch.kind = "bytecode_by_hash"

\* C7: every object a provider returned has the keccak256 that was asked for.
C7_ReturnedObjectHashesToRequest ==
    (pcall.provider # "none" /\ pcall.result.ok) =>
        keccak256(IF pcall.method = "header_by_hash" THEN pcall.result.value.header
                  ELSE pcall.result.value) = pcall.hash

(***************************************************************************)
(* Claims on the TrieCacheDB.                                              *)
(***************************************************************************)
\* C19: state_root() succeeds in every state of the DB, the state trie being
\* empty or its root node shorter than 32 bytes included; when it returned, the
\* root field is the commitment it returned and the root node is the Blinded
\* node of that commitment.
C19_StateRootSucceeds ==
    tdb.last.op = "state_root" =>
        /\ tdb.last.ok
        /\ tdb.root = tdb.last.commitment
        /\ tdb.root_node = Blinded(tdb.last.commitment)

\* C20: after commit(changes) the new info of the touched account is what basic
\* reads, a destroyed account reading as non-existent, and the root node commits
\* to the state with the change applied, which is what a following state_root()
\* returns.
C20_CommitVisible ==
    tdb.last.op = "commit" =>
        LET ch == tdb.last.arg.v
            p == HashedPath(ch.address)
            was == IF p \in DOMAIN tdb.state /\ TrieAccountDecode(tdb.state[p]).ok
                   THEN TrieAccountDecode(tdb.state[p]).v
                   ELSE [nonce |-> 0, balance |-> 0, storage_root |-> EMPTY_ROOT_HASH,
                         code_hash |-> KECCAK_EMPTY]
            now == [was EXCEPT !.nonce = ch.info.nonce, !.balance = ch.info.balance,
                               !.code_hash = ch.info.code_hash]
            state == IF ch.selfdestructed THEN Unbind(tdb.state, p)
                     ELSE Bind(tdb.state, p, TrieAccountEncode(now))
        IN  /\ tdb.last.ok
            /\ ch.address \in DOMAIN tdb.accounts
            /\ IF ch.selfdestructed
               THEN ~Info(tdb.accounts[ch.address]).some
               ELSE Info(tdb.accounts[ch.address]) = Some(ch.info)
            /\ StateRootOf(tdb.root_node) = StateRootOf(TrieOfKeys(state, DOMAIN state))

C22_MissingSlotIsZero ==
    [][(/\ tdb'.last.op = "storage"
        /\ tdb'.last.err \notin {"Provider", "code fetch"}
        /\ HashedPath(tdb'.last.arg.v[1]) \in DOMAIN tdb.state
        /\ TrieAccountDecode(tdb.state[HashedPath(tdb'.last.arg.v[1])]).ok
        /\ LET a == tdb'.last.arg.v[1]
               i == tdb'.last.arg.v[2]
               leaf == TrieAccountDecode(tdb.state[HashedPath(a)]).v
           IN  /\ leaf.storage_root = EMPTY_ROOT_HASH \/ HashedPath(i) \notin DOMAIN Slots
               /\ a \in DOMAIN tdb.accounts => i \notin DOMAIN tdb.accounts[a].storage)
       => (tdb'.last.ok /\ tdb'.last.out.value = U256_ZERO)]_vars

\* C23: storage(A, slot) on an account that the cache holds as StorageCleared or
\* NotExisting, for a slot that is not in its cached storage, returns zero, calls
\* no fetcher and leaves every field of the DB as it was; CacheDB::storage on
\* such an account cache returns zero, makes no call to the database under it
\* and leaves the cache as it was.
C23_ClearedReadsZero ==
    /\ [][(/\ tdb'.last.op = "storage"
            /\ tdb'.last.arg.v[1] \in DOMAIN tdb.accounts
            /\ tdb.accounts[tdb'.last.arg.v[1]].account_state
                    \in {"StorageCleared", "NotExisting"}
            /\ tdb'.last.arg.v[2] \notin DOMAIN tdb.accounts[tdb'.last.arg.v[1]].storage)
           => /\ tdb'.last.ok
              /\ tdb'.last.out.value = U256_ZERO
              /\ tdb'.last.out.fetches = 0 /\ tdb'.last.out.codes = 0
              /\ [tdb' EXCEPT !.calls = tdb.calls, !.last = tdb.last] = tdb]_vars
    /\ [](\A a \in DOMAIN tdb.accounts, i \in Indexes, ext \in ExtAnswers :
            (/\ tdb.accounts[a].account_state \in {"StorageCleared", "NotExisting"}
             /\ i \notin DOMAIN tdb.accounts[a].storage)
            => CacheDB_storage(tdb, a, i, ext) = DBRes(TRUE, "", tdb, None, U256_ZERO, 0, 0))

\* storage read zero at slot 0 of an account that a changeset had created with a
\* write to slot 2, and for which the DB holds no storage root.
C23_Witness ==
    /\ tdb.last.op = "storage" /\ tdb.last.ok
    /\ tdb.calls = 2
    /\ tdb.last.arg.v[1] \in DOMAIN tdb.accounts
    /\ tdb.accounts[tdb.last.arg.v[1]].account_state = "StorageCleared"
    /\ DOMAIN tdb.accounts[tdb.last.arg.v[1]].storage = {2}
    /\ tdb.last.arg.v[2] = 0
    /\ tdb.last.out.value = U256_ZERO
    /\ tdb.last.arg.v[1] \notin DOMAIN tdb.storage_roots

C25_LookupsArePure ==
    [][/\ tdb'.last.op \in {"code_by_hash", "block_hash"} =>
             /\ tdb'.last.out.fetches = 0 /\ tdb'.last.out.codes = 0
             /\ [tdb' EXCEPT !.calls = tdb.calls, !.last = tdb.last] = tdb
       /\ tdb'.last.op = "block_hash" =>
             IF tdb'.last.arg.v \in DOMAIN tdb.block_hashes
             THEN tdb'.last.ok /\ tdb'.last.out.hash = tdb.block_hashes[tdb'.last.arg.v]
             ELSE ~tdb'.last.ok
       /\ tdb'.last.op = "code_by_hash" =>
             IF tdb'.last.arg.v \in DOMAIN tdb.contracts
             THEN tdb'.last.ok /\ tdb'.last.out.value = tdb.contracts[tdb'.last.arg.v]
             ELSE ~tdb'.last.ok
       /\ IF tdb'.last.op = "insert_block_hash"
          THEN tdb'.block_hashes =
                  Bind(tdb.block_hashes, tdb'.last.arg.v, tdb'.last.out.hash)
          ELSE tdb'.block_hashes = tdb.block_hashes]_vars

\* block_hash returned the hash that insert_block_hash had stored for the
\* number.
C25_Witness ==
    /\ tdb.last.op = "block_hash" /\ tdb.last.ok
    /\ tdb.calls = 2
    /\ tdb.last.out.hash = CodeHash
    /\ tdb.block_hashes = (tdb.last.arg.v :> CodeHash)

\* C26: a run that produced a block number or an output root other than the
\* claimed one ended with a status that is neither that of success nor that of
\* the runs that an unwrap, an expect or another panic ended.
C26_MismatchStatusDistinct ==
    (/\ mpc = "aborted"
     /\ mrun.number.some /\ mrun.output_root.some
     /\ \/ mrun.number.v # mrun.boot.l2_claim_block
        \/ mrun.output_root.v # mrun.boot.l2_claim)
    => mrun.status \notin {"exit0", "panic"}

(***************************************************************************)
(* Claims on the boot loader.                                              *)
(***************************************************************************)

\* Local key k is served with n bytes.
ServedWith(k, n) == new_local(k) \in DOMAIN cache /\ Len(cache[new_local(k)]) = n

\* C27: try_boot returns a boot record exactly when the local keys 1, 2, 3, 4
\* and 5 are served with 32, 32, 32, 8 and 8 bytes; the record then holds the
\* three hashes as served and the two integers whose big-endian bytes were
\* served; otherwise it returns an error and no record.
C27_BootExactlyWhenServed ==
    mpc # "start" =>
        /\ mrun.boot.ok <=>
              /\ ServedWith(1, 32) /\ ServedWith(2, 32) /\ ServedWith(3, 32)
              /\ ServedWith(4, 8) /\ ServedWith(5, 8)
        /\ mrun.boot.ok =>
              /\ mrun.boot.info.some
              /\ mrun.boot.info.v.l1_head = cache[new_local(1)]
              /\ mrun.boot.info.v.starting_l2_output_root = cache[new_local(2)]
              /\ mrun.boot.info.v.claimed_l2_output_root = cache[new_local(3)]
              /\ \A n \in BootInts :
                    /\ cache[new_local(4)] = u64_be(n)
                          => mrun.boot.info.v.claimed_l2_output_root_block_number = n
                    /\ cache[new_local(5)] = u64_be(n) => mrun.boot.info.v.l2_chain_id = n
        /\ ~mrun.boot.ok => mrun.boot.err # "" /\ ~mrun.boot.info.some

\* A boot that returned the record of block 258 on chain 10.
C27_Witness ==
    /\ mpc = "done"
    /\ mrun.boot.ok
    /\ mrun.boot.info.v.claimed_l2_output_root_block_number = 258
    /\ mrun.boot.info.v.l2_chain_id = OP_MAINNET_CHAIN_ID
    /\ mrun.boot.info.v.l1_head = Bytes([i \in 1..32 |-> 161])

\* C28: booting fails when the loaded l2_chain_id has no derivable rollup config:
\* a boot that returned a record loaded the id of a chain that has one.
C28_UnknownChainFailsBoot ==
    (mpc # "start" /\ mrun.boot.ok) => mrun.boot.info.v.l2_chain_id = OP_MAINNET_CHAIN_ID

(***************************************************************************)
(* Claims on the reads of the in-memory oracle.                            *)
(***************************************************************************)

\* C30: get(k) returns the bytes stored under k and an error when k is absent;
\* get_exact(k, buf) copies the stored bytes into buf when the lengths are equal,
\* and otherwise, or when k is absent, returns an error to the caller and leaves
\* buf as it was.
C30_ReadsReturnStoredOrError ==
    /\ ocall.op = "get" =>
            IF ocall.key \in DOMAIN cache
            THEN ocall.status = "ok" /\ ocall.out = cache[ocall.key]
            ELSE ocall.status = "err"
    /\ ocall.op = "get_exact" =>
            IF ocall.key \in DOMAIN cache /\ Len(cache[ocall.key]) = Len(ocall.buf)
            THEN ocall.status = "ok" /\ ocall.out = cache[ocall.key]
            ELSE ocall.status = "err" /\ ocall.out = ocall.buf

(***************************************************************************)
(* Claims on the system config and its updates.                            *)
(***************************************************************************)

\* C31: eip_1559_params returns None when Holocene is not active at
\* next_timestamp, eight zero bytes when it is active at next_timestamp and not
\* at parent_timestamp, and otherwise eight bytes: the big-endian 32 bits of the
\* denominator, then those of the elasticity, an unset value counting as 0.
C31_Eip1559Params ==
    LET ActiveAt(t) == \E h \in Timestamps : sysc.rollup_config.holocene_time = SomeInt(h) /\ h <= t
        ValueOf(o) == IF o.some THEN o.v ELSE 0
    IN  (sysc.used /\ sysc.called) =>
            IF ~ActiveAt(sysc.next_timestamp) THEN sysc.out = None
            ELSE IF ~ActiveAt(sysc.parent_timestamp)
                 THEN sysc.out = Some(Bytes([i \in 1..8 |-> 0]))
            ELSE /\ sysc.out.some
                 /\ Len(sysc.out.v) = 8
                 /\ BEValue(SubSeq(sysc.out.v, 1, 4)) = ValueOf(sysc.self.eip1559_denominator)
                 /\ BEValue(SubSeq(sysc.out.v, 5, 8)) = ValueOf(sysc.self.eip1559_elasticity)

\* A call in a later Holocene block that returned the encoding of 258 and of an
\* unset elasticity.
C31_Witness ==
    /\ sysc.used /\ sysc.called
    /\ sysc.rollup_config.holocene_time = SomeInt(1)
    /\ sysc.parent_timestamp = 1 /\ sysc.next_timestamp = 2
    /\ sysc.self.eip1559_denominator = SomeInt(258)
    /\ sysc.self.eip1559_elasticity = NoInt
    /\ sysc.out = Some(Bytes(<<0, 0, 1, 2, 0, 0, 0, 0>>))

\* C32: BatcherUpdate::try_from succeeds exactly when the data is 96 bytes long,
\* its first and second words decode as the integer 32 and its third word
\* decodes as an address; otherwise the error is that of the first check that
\* fails, in the order InvalidDataLen, PointerDecodingError, InvalidDataPointer,
\* LengthDecodingError, InvalidDataLength, BatcherAddressDecodingError.
C32_BatcherUpdateChecks ==
    LET w == bupd.log.words
        IsInteger(word) == word.top12 = 0 /\ word.mid12 = 0
        IsAddress(word) == word.top12 = 0
        Short == 32 * Len(w) + bupd.log.extra # 96
        Failing(i) ==
            CASE i = 1 -> Short
              [] i = 2 -> ~Short /\ ~IsInteger(w[1])
              [] i = 3 -> ~Short /\ w[1].low8 # 32
              [] i = 4 -> ~Short /\ ~IsInteger(w[2])
              [] i = 5 -> ~Short /\ w[2].low8 # 32
              [] i = 6 -> ~Short /\ ~IsAddress(w[3])
        Errors == <<"InvalidDataLen", "PointerDecodingError", "InvalidDataPointer",
                    "LengthDecodingError", "InvalidDataLength",
                    "BatcherAddressDecodingError">>
        FirstFailing(i) == Failing(i) /\ \A j \in 1..(i - 1) : ~Failing(j)
    IN  (bupd.used /\ bupd.called) =>
            /\ bupd.out.ok <=> \A i \in 1..6 : ~Failing(i)
            /\ \A i \in 1..6 : FirstFailing(i) => (~bupd.out.ok /\ bupd.out.err = Errors[i])
            /\ bupd.out.ok => bupd.out.batch_submitter = <<w[3].mid12, w[3].low8>>

\* A log whose pointer is 32 and whose length word does not decode.
C32_Witness ==
    /\ bupd.used /\ bupd.called
    /\ bupd.log.extra = 0 /\ Len(bupd.log.words) = 3
    /\ bupd.log.words[1] = [top12 |-> 0, mid12 |-> 0, low8 |-> 32]
    /\ bupd.log.words[2].mid12 = 1
    /\ bupd.log.words[3].top12 = 1
    /\ bupd.out.err = "LengthDecodingError"

(***************************************************************************)
(* Claims on the node service.                                             *)
(***************************************************************************)

\* C34: when an actor started by spawn_and_wait fails, by an error of start() or
\* by a panic of its task, the token is cancelled, and the macro finishes only
\* after every task has ended: once the macro has finished, every task has ended
\* and the token is cancelled if an actor failed.
C34_FailureCancelsAll ==
    (actors.used /\ actors.pc = "done") =>
        /\ \A i \in Actors : actors.task[i] # "running"
        /\ (\E i \in Actors : actors.start[i] \in {"err", "panic"}) => actors.cancelled

\* C35: the count of an address in dialed_peers never exceeds n when
\* peer_redialing is Some(n) with n at least 1 and never exceeds 1 when it is
\* None, and a count grows only in a call that started a dial of that address.
C35_DialsBounded ==
    /\ [](gossip.used =>
            \A addr \in DOMAIN gossip.dialed_peers :
                /\ (gossip.peer_redialing.some /\ gossip.peer_redialing.v >= 1)
                        => gossip.dialed_peers[addr] <= gossip.peer_redialing.v
                /\ ~gossip.peer_redialing.some => gossip.dialed_peers[addr] <= 1)
    /\ [][gossip.used =>
            \A addr \in Multiaddrs :
                LET Count(g) == IF addr \in DOMAIN g.dialed_peers THEN g.dialed_peers[addr]
                                ELSE 0
                IN  /\ Count(gossip') >= Count(gossip)
                    /\ Count(gossip') > Count(gossip)
                          => /\ gossip'.last.addr = addr /\ gossip'.last.started
                             /\ Count(gossip') = Count(gossip) + 1]_vars

\* With Some(2) an address was dialed twice and a redial of it was refused.
C35_Witness ==
    /\ gossip.used
    /\ gossip.peer_redialing = SomeInt(2)
    /\ "a" \in DOMAIN gossip.dialed_peers /\ gossip.dialed_peers["a"] = 2
    /\ "b" \in DOMAIN gossip.dialed_peers
    /\ gossip.last.refused /\ gossip.last.addr = "a" /\ gossip.last.via = "redial"

\* C36: in a CacheDB, after a commit that created or self-destructed an account,
\* a storage read of a slot that no commit wrote since returns zero and does not
\* query the database under it, whatever commits touched the account since
\* without creating it.
C36_ClearedStaysCleared ==
    [][(/\ cdb.used /\ cdb'.calls = cdb.calls + 1
        /\ cdb'.last.op = "storage"
        /\ cdb.cleared[cdb'.last.address] # "no"
        /\ cdb'.last.index \notin cdb.written[cdb'.last.address])
       => /\ cdb'.last.ok
          /\ cdb'.last.value = U256_ZERO
          /\ cdb'.last.fetches = 0]_vars

(***************************************************************************)
(* Claims on the derivation pipeline.                                      *)
(***************************************************************************)

\* C37: step appends exactly the item the attributes stage yielded to the
\* prepared queue and returns Ok; on end of source it appends nothing, advances
\* the origin and returns what the advance returned; on another error it returns
\* an error and leaves the queue; and pop returns the prepared items in the order
\* step queued them: the items popped so far followed by the queue are the items
\* queued so far.
C37_StepAndPopAreFifo ==
    /\ [](dpipe.used => dpipe.popped \o dpipe.prepared = dpipe.produced)
    /\ [][(dpipe.used /\ dpipe'.calls = dpipe.calls + 1) =>
            /\ (dpipe'.op = "step" /\ dpipe'.yield.kind = "attributes") =>
                    /\ Len(dpipe'.prepared) = Len(dpipe.prepared) + 1
                    /\ SubSeq(dpipe'.prepared, 1, Len(dpipe.prepared)) = dpipe.prepared
                    /\ dpipe'.prepared[Len(dpipe'.prepared)] = dpipe'.yield.a
                    /\ dpipe'.ok /\ dpipe'.advances = dpipe.advances
            /\ (dpipe'.op = "step" /\ dpipe'.yield.kind = "eof") =>
                    /\ dpipe'.prepared = dpipe.prepared
                    /\ dpipe'.advances = dpipe.advances + 1
                    /\ dpipe'.ok = dpipe'.yield.advance
            /\ (dpipe'.op = "step" /\ dpipe'.yield.kind = "error") =>
                    /\ dpipe'.prepared = dpipe.prepared
                    /\ ~dpipe'.ok /\ dpipe'.advances = dpipe.advances
            /\ dpipe'.op = "pop" =>
                    IF dpipe.prepared = <<>> THEN ~dpipe'.out.some
                    ELSE dpipe'.out = SomeInt(dpipe.prepared[1])]_vars

\* Two different items were queued and the first of them was popped.
C37_Witness ==
    /\ dpipe.used /\ dpipe.op = "pop"
    /\ dpipe.produced = <<2, 1>>
    /\ dpipe.popped = <<2>>
    /\ dpipe.prepared = <<1>>
    /\ dpipe.advances = 1

(***************************************************************************)
(* Claims on the span batch.                                               *)
(***************************************************************************)

\* Whether a call met an overlap of the safe chain that is aligned.
SpanOverlaps(call) ==
    /\ timestamp(call.self) <= call.l2_safe_head.block_info.timestamp
    /\ (call.l2_safe_head.block_info.timestamp - timestamp(call.self))
            % call.cfg.block_time = 0

\* The parent of the span of a call that came to look for it.
SpanParent(call) ==
    IF SpanOverlaps(call)
    THEN l2_block_info_by_number(call.fetcher,
            ParentNum(call.self, call.cfg, call.l2_safe_head)).block
    ELSE call.l2_safe_head

\* The events logged before check_batch looks for the parent.
BeforeParent ==
    {"missing L1 block input", "empty span batch",
     "eager batch wants to advance current epoch", "L1 origin before Delta hard fork",
     "received out-of-order batch", "span batch has no new blocks after safe head",
     "batch has misaligned timestamp, block time is too short",
     "batch has misaligned timestamp, not overlapped exactly",
     "attempt to subtract with overflow"}

\* C38: a check_batch that comes to look for the parent of the span returns
\* Undecided when the span overlaps the safe chain and the fetch of the block at
\* safe_head.number - (safe_head.timestamp - batch.timestamp) / block_time - 1
\* fails; otherwise it drops the batch for its parent hash exactly when the
\* parent check differs from the parent hash of the parent (the fetched block
\* for an overlap, the safe head otherwise), drops it as of a future epoch only
\* when the starting epoch is beyond the L1 origin of the parent plus one, as
\* too old only when it is before that origin, and goes on to the elements
\* only when it is neither.
C38_ParentOfTheSpan ==
    (/\ span.used /\ span.called
     /\ span.result.why \notin BeforeParent
     /\ SpanOverlaps(span) => ParentNum(span.self, span.cfg, span.l2_safe_head) >= 0)
    => IF SpanOverlaps(span)
            /\ ~l2_block_info_by_number(span.fetcher,
                    ParentNum(span.self, span.cfg, span.l2_safe_head)).ok
       THEN span.result = Verdict("Undecided", "failed to fetch L2 block")
       ELSE /\ span.result.why = "parent block number mismatch"
                <=> ~check_parent_hash(span.self, SpanParent(span).block_info.parent_hash)
            /\ span.result.why = "batch is for future epoch too far ahead"
                => starting_epoch_num(span.self) > SpanParent(span).l1_origin.number + 1
            /\ span.result.why = "dropped batch, epoch is too old"
                => starting_epoch_num(span.self) < SpanParent(span).l1_origin.number
            /\ span.result.why \in {"accepted", "failed to fetch payload"}
                => /\ starting_epoch_num(span.self) <= SpanParent(span).l1_origin.number + 1
                   /\ starting_epoch_num(span.self) >= SpanParent(span).l1_origin.number

(***************************************************************************)
(* Claims on the interop program.                                          *)
(***************************************************************************)

\* Whether the agreed pre-state of a loaded boot is at or after the claim.
AtOrAfterClaim(boot) == boot.agreed_pre_state.timestamp >= boot.claimed_l2_timestamp

C40_CloneTerminates ==
    /\ [](fdc.used /\ fdc.pc \in {"returned", "converted"}
            => /\ fdc.out.variant = fdc.fd.variant
               /\ fdc.out.file.file = fdc.fd.file.file)
    /\ [](fdc.used /\ fdc.pc = "converted" /\ fdc.fd.variant # "Wildcard"
            => /\ fdc.number_of_clone = fdc.number
               /\ fdc.number = usize_from(fdc.fd)
               /\ fdc.number \in 0..6)
    /\ (fdc.used /\ fdc.pc = "clone") ~> (fdc.pc \in {"returned", "converted", "panicked"})

====
